---- MODULE Spec2Model ----
(***************************************************************************)
(* A model of terra's lazy settings object (terra/core/settings.py): the   *)
(* nested value container, the default templates, the lazily configured   *)
(* singleton wrapper, computed settings and the settings context.          *)
(***************************************************************************)
EXTENDS Integers, Sequences, FiniteSets, TLC

VARIABLES
  wrapped,           \* LazyObject._wrapped: the Settings object, or None
  global_templates,  \* the module-level template registry
  env,               \* os.environ: TERRA_SETTINGS_FILE and TERRA_UNITTEST
  receivers,         \* what is connected to the two settings signals
  last,              \* the last call made on the wrapper and how it ended
  evaluated,         \* the keys whose settings_property has returned, since the last write
  reinvoked,         \* the keys whose settings_property was called again after that
  entered,           \* the containers as they were at each __enter__ not yet exited
  tIn,               \* template check: the container the templates are applied to
  tOut,              \* template check: the containers after each application
  tLast,             \* template check: the template applied last
  added,             \* the last add_templates call: the registry before it, its argument
  bus,               \* a Signal: its receivers, its per-sender cache, its flags
  alive,             \* the receiver objects that have not been released
  busLast,           \* the last call made on the Signal and how it ended
  lock,              \* Signal.lock: the thread that holds it, or "free"
  threads            \* the threads that call the Signal, each at a place in its call

wrapperVars == <<wrapped, env, receivers, last, evaluated, reinvoked, entered>>
tplVars == <<tIn, tOut, tLast, added>>
busVars == <<bus, alive, busLast, lock, threads>>
vars == <<wrapped, global_templates, env, receivers, last, evaluated, reinvoked, entered,
          tIn, tOut, tLast, added, bus, alive, busLast, lock, threads>>

(***************************************************************************)
(* Values.  A container is a function from keys to values; a value is a    *)
(* record whose k field tells what it is: a str, an ExpandedString, a      *)
(* scalar that is no string, a settings_property function, or a nested     *)
(* container.                                                              *)
(***************************************************************************)
Str(s) == [k |-> "str", v |-> s, d |-> <<>>]
ExpandedString(s) == [k |-> "exp", v |-> s, d |-> <<>>]
Scalar(s) == [k |-> "val", v |-> s, d |-> <<>>]
Func(f) == [k |-> "fn", v |-> f, d |-> <<>>]
Dict(d) == [k |-> "dict", v |-> "", d |-> d]

EmptyDict == <<>>

IsString(val) == val.k \in {"str", "exp"}

\* Python's == on two values: an ExpandedString equals the str of the same
\* text, containers are compared key by key.
RECURSIVE PyEq(_, _)
PyEq(a, b) ==
  IF IsString(a) /\ IsString(b) THEN a.v = b.v
  ELSE IF a.k = "dict" /\ b.k = "dict"
       THEN /\ DOMAIN a.d = DOMAIN b.d
            /\ \A key \in DOMAIN a.d : PyEq(a.d[key], b.d[key])
       ELSE a = b

\* vsi.tools.python.nested_update: merge src into dict_ key by key; a nested
\* container of src is merged into the one dict_ holds (a fresh one when
\* dict_ holds none), anything else of src replaces what dict_ holds.
RECURSIVE nested_update(_, _)
nested_update(dict_, src) ==
  [key \in DOMAIN dict_ \cup DOMAIN src |->
     IF key \notin DOMAIN src THEN dict_[key]
     ELSE IF src[key].k = "dict"
          THEN Dict(nested_update(
                 IF key \in DOMAIN dict_ /\ dict_[key].k = "dict"
                   THEN dict_[key].d ELSE EmptyDict,
                 src[key].d))
          ELSE src[key]]

\* vsi.tools.python.nested_in_dict: is dict1 deeply contained in dict2, with
\* equal leaves.
RECURSIVE nested_in_dict(_, _)
nested_in_dict(dict1, dict2) ==
  \A key \in DOMAIN dict1 :
    /\ key \in DOMAIN dict2
    /\ IF dict1[key].k = "dict"
       THEN dict2[key].k = "dict" /\ nested_in_dict(dict1[key].d, dict2[key].d)
       ELSE PyEq(dict2[key], dict1[key])

\* ObjectDict.update
update(self, src) == nested_update(self, src)

(***************************************************************************)
(* Strings and paths, as the standard library computes them                *)
(***************************************************************************)
Ch(s, i) == SubSeq(s, i, i)

\* str.startswith, str.endswith
StartsWith(s, prefix) == Len(s) >= Len(prefix) /\ SubSeq(s, 1, Len(prefix)) = prefix
EndsWith(s, suffix) ==
  Len(s) >= Len(suffix) /\ SubSeq(s, Len(s) - Len(suffix) + 1, Len(s)) = suffix

SetMin(S) == CHOOSE x \in S : \A y \in S : x <= y
SetMax(S) == CHOOSE x \in S : \A y \in S : x >= y

\* str.rstrip('/')
RECURSIVE RStripSlash(_)
RStripSlash(s) ==
  IF s # "" /\ EndsWith(s, "/") THEN RStripSlash(SubSeq(s, 1, Len(s) - 1)) ELSE s

\* the characters of \w
WordChars == {"A", "B", "C", "D", "E", "F", "G", "H", "I", "J", "K", "L", "M", "N",
  "O", "P", "Q", "R", "S", "T", "U", "V", "W", "X", "Y", "Z", "a", "b", "c", "d",
  "e", "f", "g", "h", "i", "j", "k", "l", "m", "n", "o", "p", "q", "r", "s", "t",
  "u", "v", "w", "x", "y", "z", "0", "1", "2", "3", "4", "5", "6", "7", "8", "9", "_"}

\* Where the variable reference that starts with the $ at p ends (0: p starts none)
VarEnd(path, p) ==
  LET n == Len(path) IN
  IF p >= n THEN 0
  ELSE IF Ch(path, p + 1) = "{"
       THEN LET closes == {q \in (p + 2)..n : Ch(path, q) = "}"} IN
            IF closes = {} THEN 0 ELSE SetMin(closes)
       ELSE IF Ch(path, p + 1) \in WordChars
            THEN SetMax({q \in (p + 1)..n : \A r \in (p + 1)..q : Ch(path, r) \in WordChars})
            ELSE 0

VarName(path, p) ==
  IF Ch(path, p + 1) = "{" THEN SubSeq(path, p + 2, VarEnd(path, p) - 1)
  ELSE SubSeq(path, p + 1, VarEnd(path, p))

\* os.path.expandvars: $NAME and ${NAME} are replaced by the variable's value,
\* left to right, each once; a reference to an unset variable stays.
RECURSIVE ExpandVarsFrom(_, _, _)
ExpandVarsFrom(environ, path, i) ==
  LET n == Len(path)
      refs == {p \in i..n : Ch(path, p) = "$" /\ VarEnd(path, p) > 0}
  IN IF refs = {} THEN path
     ELSE LET p == SetMin(refs)
              j == VarEnd(path, p)
              name == VarName(path, p)
          IN IF name \in DOMAIN environ
             THEN LET head == SubSeq(path, 1, p - 1) \o environ[name]
                  IN ExpandVarsFrom(environ, head \o SubSeq(path, j + 1, n), Len(head) + 1)
             ELSE ExpandVarsFrom(environ, path, j + 1)

expandvars(environ, path) == ExpandVarsFrom(environ, path, 1)

\* the home directory of the password database, for a process without $HOME
PwdHome == "/root"

\* os.path.expanduser: a leading ~ becomes the home directory; ~name of a user
\* the password database does not know stays.
expanduser(environ, path) ==
  IF ~StartsWith(path, "~") THEN path
  ELSE LET n == Len(path)
           slashes == {q \in 2..n : Ch(path, q) = "/"}
           i == IF slashes = {} THEN n + 1 ELSE SetMin(slashes)
       IN IF i # 2 THEN path
          ELSE LET userhome == RStripSlash(IF "HOME" \in DOMAIN environ
                                           THEN environ["HOME"] ELSE PwdHome)
                   res == userhome \o SubSeq(path, i, n)
               IN IF res = "" THEN "/" ELSE res

\* os.path.dirname
dirname(p) ==
  LET slashes == {q \in 1..Len(p) : Ch(p, q) = "/"}
      i == IF slashes = {} THEN 0 ELSE SetMax(slashes)
      head == SubSeq(p, 1, i)
  IN IF head # "" /\ RStripSlash(head) # "" THEN RStripSlash(head) ELSE head

\* os.path.join of two components
join(a, b) ==
  IF StartsWith(b, "/") THEN b
  ELSE IF a = "" \/ EndsWith(a, "/") THEN a \o b
       ELSE a \o "/" \o b

filename_suffixes == {"_file", "_files", "_dir", "_dirs", "_path", "_paths"}
json_include_suffixes == {"_json"}

\* any(name.endswith(pattern) for pattern in ...)
IsFilenameKey(name) == \E pattern \in filename_suffixes : EndsWith(name, pattern)
IsIncludeKey(key) == \E pattern \in json_include_suffixes : EndsWith(key, pattern)

(***************************************************************************)
(* Templates                                                               *)
(***************************************************************************)
Template(pattern, defaults) == [pattern |-> pattern, defaults |-> defaults]

\* global_templates as the module defines it (the logging formats and the
\* volume maps, which no template pattern reads, are left out).
BuiltinTemplates == <<
  Template(EmptyDict,
    ("logging" :> Dict("level" :> Str("ERROR")))
    @@ ("executor" :> Dict("type" :> Str("ThreadPoolExecutor")))
    @@ ("compute" :> Dict("arch" :> Str("terra.compute.dummy")))
    @@ ("terra" :> Dict("zone" :> Str("controller")))
    @@ ("status_file" :> Func("status_file"))
    @@ ("processing_dir" :> Func("processing_dir"))
    @@ ("unittest" :> Func("unittest"))
    @@ ("resume" :> Scalar("False"))),
  Template("compute" :> Dict("arch" :> Str("terra.compute.virtualenv")),
           "compute" :> Dict("virtualenv_dir" :> Func("need_to_set_virtualenv_dir"))),
  Template("compute" :> Dict("arch" :> Str("virtualenv")),
           "compute" :> Dict("virtualenv_dir" :> Func("need_to_set_virtualenv_dir")))
>>

\* A bug the template merge could have: the defaults are merged over the
\* container, so a default replaces an explicit setting.
ApplyTemplateDefaultsWin(pattern, defaults, c) ==
  IF nested_in_dict(pattern, c)
  THEN update(c, nested_update(nested_update(EmptyDict, c), defaults))
  ELSE c

\* The body of configure's template loop: one template against the container.
ApplyTemplate(pattern, defaults, c) ==
  IF nested_in_dict(pattern, c)
  THEN update(c, nested_update(nested_update(EmptyDict, defaults), c))
  ELSE c

\* A bug the template loop could have: every pattern is tested against the
\* container configure was given, not against the container as it is now.
RECURSIVE ApplyFromInput(_, _, _)
ApplyFromInput(templates, input, c) ==
  IF templates = <<>> THEN c
  ELSE ApplyFromInput(Tail(templates), input,
         IF nested_in_dict(Head(templates).pattern, input)
         THEN update(c, nested_update(
                nested_update(EmptyDict, Head(templates).defaults), c))
         ELSE c)

ApplyTemplatesFromInput(templates, c) == ApplyFromInput(templates, c, c)

\* Another: the templates are taken from the last of the registry to the
\* first.
RECURSIVE ApplyTemplatesBackwards(_, _)
ApplyTemplatesBackwards(templates, c) ==
  IF templates = <<>> THEN c
  ELSE ApplyTemplatesBackwards(SubSeq(templates, 1, Len(templates) - 1),
         IF nested_in_dict(templates[Len(templates)].pattern, c)
         THEN update(c, nested_update(
                nested_update(EmptyDict, templates[Len(templates)].defaults), c))
         ELSE c)

\* configure's template loop: the templates in registry order, each against
\* the container the earlier ones have left.
RECURSIVE ApplyTemplates(_, _)
ApplyTemplates(templates, c) ==
  IF templates = <<>> THEN c
  ELSE ApplyTemplates(Tail(templates),
         ApplyTemplate(Head(templates).pattern, Head(templates).defaults, c))

\* list.insert(index, x)
ListInsert(list, index, x) ==
  LET n == Len(list)
      i0 == IF index < 0 THEN index + n ELSE index
      i == IF i0 < 0 THEN 0 ELSE IF i0 > n THEN n ELSE i0
  IN SubSeq(list, 1, i) \o <<x>> \o SubSeq(list, i + 1, n)

\* LazySettings.add_templates: insert each new template offset places from
\* the end, offset being the length of the registry at the call.
RECURSIVE InsertAll(_, _, _)
InsertAll(registry, offset, templates) ==
  IF templates = <<>> THEN registry
  ELSE InsertAll(ListInsert(registry, 0 - offset, Head(templates)),
                 offset, Tail(templates))

add_templates(registry, templates) == InsertAll(registry, Len(registry), templates)

(***************************************************************************)
(* The process environment                                                 *)
(***************************************************************************)
ENVIRONMENT_VARIABLE == "TERRA_SETTINGS_FILE"

\* The files of the file system, as json.load reads them.
Files ==
  ("/cfg/config.json" :>
      (("compute" :> Dict("arch" :> Str("virtualenv")))
       @@ ("data_dir" :> Str("~/data"))))
  @@ ("/cfg/extra.json" :> ("level" :> Str("$LEVEL")))

\* os.getcwd()
Cwd == "/work"
\* the directories os.access(dir, os.W_OK) grants
WritableDirs == {"/work", "/cfg"}
\* what tempfile.mkdtemp(prefix="terra_") returns
TempDir == "/tmp/terra_0"

(***************************************************************************)
(* The wrapper's state                                                     *)
(***************************************************************************)
\* LazyObject._wrapped is None
NoneRef == [isNone |-> TRUE, d |-> EmptyDict, has_backup |-> FALSE, backup |-> <<>>]

\* A Settings object: its items, and its _backup attribute once it exists.
Settings(d) == [isNone |-> FALSE, d |-> d, has_backup |-> FALSE, backup |-> <<>>]

Error(type, arg) == [type |-> type, arg |-> arg]
NoError == Error("", "")
AttributeError(name) == Error("AttributeError", name)
KeyError(name) == Error("KeyError", name)
ImproperlyConfigured(what) == Error("ImproperlyConfigured", what)

None == Scalar("None")

\* How a read of a container ends: the root container afterwards, the value
\* returned or the error raised, and the settings_property calls it made.
Returned(d, val, calls) ==
  [d |-> d, out |-> "ok", err |-> NoError, val |-> val, calls |-> calls]
Raised(d, err, calls) ==
  [d |-> d, out |-> "raise", err |-> err, val |-> None, calls |-> calls]

\* The container at a path of keys below the root, and the root with it replaced
RECURSIVE GetAt(_, _)
GetAt(d, path) == IF path = <<>> THEN d ELSE GetAt(d[Head(path)].d, Tail(path))

RECURSIVE SetAt(_, _, _)
SetAt(d, path, sub) ==
  IF path = <<>> THEN sub
  ELSE [d EXCEPT ![Head(path)] = Dict(SetAt(d[Head(path)].d, Tail(path), sub))]

\* dict.__setitem__, dict.__delitem__
SetItem(d, name, val) ==
  [key \in DOMAIN d \cup {name} |-> IF key = name THEN val ELSE d[key]]
DelItem(d, name) == [key \in DOMAIN d \ {name} |-> d[key]]

\* self[name] = val, for the container self at path
StoreAt(d, path, name, val) == SetAt(d, path, SetItem(GetAt(d, path), name, val))

\* A call of the settings_property function stored at the path at: what it
\* was given as self, and whether it returned
Call(fn, self, at, ok) == [fn |-> fn, self |-> self, at |-> at, ok |-> ok]

\* A bug those lines could have: a string that is an ExpandedString already
\* is expanded again.
ExpandAgainAndStore(d, path, name, val, calls) ==
  IF val.k \in {"str", "exp"}
  THEN LET subst == expandvars(env, val.v)
           text == IF IsFilenameKey(name) THEN expanduser(env, subst) ELSE subst
       IN Returned(StoreAt(d, path, name, ExpandedString(text)),
                   ExpandedString(text), calls)
  ELSE Returned(d, val, calls)

\* Lines 638-644 of Settings.__getattr__: a str that is no ExpandedString is
\* expanded, stored back as an ExpandedString and returned.
ExpandAndStore(d, path, name, val, calls) ==
  IF val.k = "str"
  THEN LET subst == expandvars(env, val.v)
           text == IF IsFilenameKey(name) THEN expanduser(env, subst) ELSE subst
       IN Returned(StoreAt(d, path, name, ExpandedString(text)),
                   ExpandedString(text), calls)
  ELSE Returned(d, val, calls)

RECURSIVE EvalProperty(_, _)
RECURSIVE Getattr(_, _, _)

\* The settings_property functions, called with the configured singleton whose
\* container is root: those of the module, and two an application defines
\* (one looks up a key that may not be set, one raises after reading
\* processing_dir, one names a file to include, and two read status_file and
\* processing_dir, in either order).
EvalProperty(fn, root) ==
  CASE fn = "status_file" ->
         LET r == Getattr(root, <<>>, "processing_dir") IN
         IF r.out = "raise" THEN r
         ELSE Returned(r.d, Str(join(r.val.v, "status.json")), r.calls)
    [] fn = "processing_dir" ->
         LET has == Getattr(root, <<>>, "config_file") IN
         IF has.out = "raise" /\ has.err.type # "AttributeError" THEN has
         ELSE LET r == IF has.out = "ok" THEN Getattr(has.d, <<>>, "config_file")
                       ELSE Returned(has.d, Str(Cwd), <<>>)
                  dir == IF has.out = "ok" THEN dirname(r.val.v) ELSE Cwd
              IN Returned(r.d,
                          Str(IF dir \in WritableDirs THEN dir ELSE TempDir),
                          has.calls \o r.calls)
    [] fn = "unittest" ->
         Returned(root,
                  Scalar(IF "TERRA_UNITTEST" \in DOMAIN env /\ env["TERRA_UNITTEST"] = "1"
                         THEN "True" ELSE "False"), <<>>)
    [] fn = "need_to_set_virtualenv_dir" ->
         Raised(root, ImproperlyConfigured("virtualenv_dir"), <<>>)
    [] fn = "app_lookup" ->
         IF "app_key" \in DOMAIN root THEN Returned(root, root["app_key"], <<>>)
         ELSE Raised(root, KeyError("app_key"), <<>>)
    [] fn = "app_checked_dir" ->
         LET r == Getattr(root, <<>>, "processing_dir") IN
         IF r.out = "raise" THEN r
         ELSE Raised(r.d, ImproperlyConfigured("app_checked_dir"), r.calls)
    [] fn = "app_extra_json" -> Returned(root, Str("/cfg/extra.json"), <<>>)
    [] fn = "app_report" ->
         LET r == Getattr(root, <<>>, "status_file") IN
         IF r.out = "raise" THEN r
         ELSE LET q == Getattr(r.d, <<>>, "processing_dir") IN
              IF q.out = "raise" THEN [q EXCEPT !.calls = r.calls \o @]
              ELSE Returned(q.d, Str(q.val.v \o ":" \o r.val.v), r.calls \o q.calls)
    [] fn = "app_summary" ->
         LET q == Getattr(root, <<>>, "processing_dir") IN
         IF q.out = "raise" THEN q
         ELSE LET r == Getattr(q.d, <<>>, "status_file") IN
              IF r.out = "raise" THEN [r EXCEPT !.calls = q.calls \o @]
              ELSE Returned(r.d, Str(q.val.v \o ":" \o r.val.v), q.calls \o r.calls)

\* A bug lines 631-637 of Settings.__getattr__ could have: the result is returned without being stored.
ReturnResult(path, name, fn, e) ==
  LET calls == <<Call(fn, "settings", path \o <<name>>, e.out = "ok")>> \o e.calls
  IN IF e.out = "raise"
     THEN Raised(e.d, IF e.err.type = "KeyError" THEN AttributeError(name) ELSE e.err,
                 calls)
     ELSE IF e.val.k = "str" THEN ExpandAndStore(e.d, path, name, e.val, calls)
          ELSE Returned(e.d, e.val, calls)

\* Lines 631-637 of Settings.__getattr__, with e the way the call of the
\* settings_property fn ended: its result is stored back at the key, and a
\* KeyError it raised leaves the try block as the AttributeError of name.
StoreResult(path, name, fn, e) ==
  LET calls == <<Call(fn, "settings", path \o <<name>>, e.out = "ok")>> \o e.calls
  IN IF e.out = "raise"
     THEN Raised(e.d, IF e.err.type = "KeyError" THEN AttributeError(name) ELSE e.err,
                 calls)
     ELSE ExpandAndStore(StoreAt(e.d, path, name, e.val), path, name, e.val, calls)

\* A bug Settings.__getattr__ could have: the result of a settings_property
\* is returned without being stored back.
GetattrNoCache(root, path, name) ==
  LET self == GetAt(root, path) IN
  IF name \notin DOMAIN self THEN Raised(root, AttributeError(name), <<>>)
  ELSE IF self[name].k = "fn"
       THEN ReturnResult(path, name, self[name].v, EvalProperty(self[name].v, root))
       ELSE ExpandAndStore(root, path, name, self[name], <<>>)

\* Another: a settings_property that raised is dropped, None stored in its place.
GetattrCachesFailure(root, path, name) ==
  LET self == GetAt(root, path)
      Failed(r) == IF r.out = "raise" THEN [r EXCEPT !.d = StoreAt(r.d, path, name, None)]
                   ELSE r
  IN IF name \notin DOMAIN self THEN Raised(root, AttributeError(name), <<>>)
     ELSE IF self[name].k = "fn"
          THEN Failed(StoreResult(path, name, self[name].v,
                                  EvalProperty(self[name].v, root)))
          ELSE ExpandAndStore(root, path, name, self[name], <<>>)

\* Settings.__getattr__(self, name) for the container self at path below the
\* root: a settings_property is called with the singleton and its result
\* stored back; a str is expanded once and stored back as an ExpandedString.
Getattr(root, path, name) ==
  LET self == GetAt(root, path) IN
  IF name \notin DOMAIN self THEN Raised(root, AttributeError(name), <<>>)
  ELSE IF self[name].k = "fn"
       THEN StoreResult(path, name, self[name].v, EvalProperty(self[name].v, root))
       ELSE ExpandAndStore(root, path, name, self[name], <<>>)

(***************************************************************************)
(* The two settings signals                                                *)
(***************************************************************************)
NoReceivers == [post_settings_configured |-> <<>>, post_settings_context |-> <<>>]

\* The receivers rs called in turn with the container d, n of them called
\* before: one returns ("ok"), one raises ("raises"), one reads
\* settings.processing_dir and returns ("reads").  The first that raises ends
\* the walk.
RECURSIVE Delivered(_, _, _, _)
Delivered(rs, d, calls, n) ==
  IF rs = <<>> THEN [d |-> d, calls |-> calls, invoked |-> n, raised |-> FALSE]
  ELSE IF Head(rs) = "raises"
       THEN [d |-> d, calls |-> calls, invoked |-> n + 1, raised |-> TRUE]
       ELSE IF Head(rs) = "reads"
            THEN LET Seen(r) ==
                       IF r.out = "raise"
                       THEN [d |-> r.d, calls |-> calls \o r.calls, invoked |-> n + 1,
                             raised |-> TRUE]
                       ELSE Delivered(Tail(rs), r.d, calls \o r.calls, n + 1)
                 IN Seen(Getattr(d, <<>>, "processing_dir"))
            ELSE Delivered(Tail(rs), d, calls, n + 1)

\* Signal.send(sender) for the connected receivers: no receiver is called
\* when none is connected or TERRA_UNITTEST is 1.  seen is the container the
\* receivers find, d the container they leave.
Send(signal, sender, seen) ==
  LET rs == receivers[signal]
      off == rs = <<>> \/ ("TERRA_UNITTEST" \in DOMAIN env /\ env["TERRA_UNITTEST"] = "1")
      Sent(x) ==
        [note |-> [signal |-> signal, sender |-> sender, seen |-> seen,
                   invoked |-> x.invoked],
         raised |-> x.raised, d |-> x.d, calls |-> x.calls]
  IN Sent(Delivered(IF off THEN <<>> ELSE rs, seen, <<>>, 0))

(***************************************************************************)
(* The calls on the wrapper.  Each is an operator from the wrapper's state *)
(* to how the call ends: the state afterwards, the value returned or the   *)
(* error raised, the notifications sent, the settings_property calls made  *)
(* and the methods of the wrapper it went through.                         *)
(***************************************************************************)
CallReturned(w, val, notes, calls, inner) ==
  [w |-> w, out |-> "ok", err |-> NoError, val |-> val, notes |-> notes,
   calls |-> calls, inner |-> inner]
CallRaised(w, err, notes, calls, inner) ==
  [w |-> w, out |-> "raise", err |-> err, val |-> None, notes |-> notes,
   calls |-> calls, inner |-> inner]

\* A settings_property function called with a plain dict as self, as read_json
\* calls it.
EvalPropertyOnDict(fn, self) ==
  CASE fn = "status_file" -> Raised(self, AttributeError("processing_dir"), <<>>)
    [] fn = "processing_dir" ->
         Returned(self, Str(IF Cwd \in WritableDirs THEN Cwd ELSE TempDir), <<>>)
    [] fn = "unittest" ->
         Returned(self,
                  Scalar(IF "TERRA_UNITTEST" \in DOMAIN env /\ env["TERRA_UNITTEST"] = "1"
                         THEN "True" ELSE "False"), <<>>)
    [] fn = "need_to_set_virtualenv_dir" ->
         Raised(self, ImproperlyConfigured("virtualenv_dir"), <<>>)
    [] fn = "app_lookup" ->
         IF "app_key" \in DOMAIN self THEN Returned(self, self["app_key"], <<>>)
         ELSE Raised(self, KeyError("app_key"), <<>>)
    [] fn = "app_checked_dir" -> Raised(self, AttributeError("processing_dir"), <<>>)
    [] fn = "app_extra_json" -> Returned(self, Str("/cfg/extra.json"), <<>>)

\* Lines 513-514 of read_json, with e the name of the file as line 510-512
\* left it: the file is opened and its JSON loaded into a Settings object.
LoadJson(e, calls) ==
  IF e.out = "raise" THEN Raised(EmptyDict, e.err, calls)
  ELSE IF ~IsString(e.val) THEN Raised(EmptyDict, Error("TypeError", "open"), calls)
  ELSE IF e.val.v \notin DOMAIN Files
       THEN Raised(EmptyDict, Error("FileNotFoundError", e.val.v), calls)
       ELSE Returned(EmptyDict, Dict(update(EmptyDict, Files[e.val.v])), calls)

\* read_json(json_file) of configure: a settings_property is called first, with
\* the name settings as configure's scope binds it (the defaults of the last
\* template the loop went through); then the file is opened and loaded.
read_json(json_file, at) ==
  LET Called(e) == LoadJson(e, <<Call(json_file.v, "defaults", at, e.out = "ok")>>)
  IN IF json_file.k = "fn"
     THEN Called(EvalPropertyOnDict(json_file.v,
                                    global_templates[Len(global_templates)].defaults))
     ELSE LoadJson(Returned(EmptyDict, json_file, <<>>), <<>>)

\* The settings_property calls of the reads of a set of keys (a container is
\* given at most one include key, so their order is of no account)
RECURSIVE CallsOf(_, _)
CallsOf(results, keys) ==
  IF keys = {} THEN <<>>
  ELSE LET key == CHOOSE key \in keys : TRUE
       IN results[key].calls \o CallsOf(results, keys \ {key})

\* The container d with the results res of patching its keys: the first
\* read_json that raised ends the patching with its error.
Patched(d, res) ==
  LET failed == {key \in DOMAIN d : res[key].out = "raise"}
      patched == [key \in DOMAIN d |-> IF key \in failed THEN d[key] ELSE res[key].val]
  IN IF failed = {} THEN Returned(patched, None, CallsOf(res, DOMAIN d))
     ELSE Raised(patched, res[CHOOSE key \in failed : TRUE].err, CallsOf(res, DOMAIN d))

\* nested_patch_inplace(self._wrapped, key ends with an include suffix,
\* read_json): every include key, at any depth, gets the container its file
\* holds.
RECURSIVE PatchIncludes(_, _)
PatchIncludes(d, path) ==
  LET Sub(sub) == [sub EXCEPT !.val = Dict(sub.d)] IN
  Patched(d, [key \in DOMAIN d |->
                IF IsIncludeKey(key) THEN read_json(d[key], path \o <<key>>)
                ELSE IF d[key].k = "dict"
                     THEN Sub(PatchIncludes(d[key].d, path \o <<key>>))
                     ELSE Returned(EmptyDict, d[key], <<>>)])

ReceiverError == Error("ReceiverError", "post_settings_configured")
AlreadyConfigured == ImproperlyConfigured("Settings already configured.")

\* Line 528 of configure, with inc the container the includes left and sent
\* what post_settings_configured.send did
Published(inc, sent) ==
  IF sent.raised
  THEN CallRaised(Settings(sent.d), ReceiverError, <<sent.note>>,
                  inc.calls \o sent.calls, <<"configure">>)
  ELSE CallReturned(Settings(sent.d), None, <<sent.note>>,
                    inc.calls \o sent.calls, <<"configure">>)

\* A bug configure could have: the committed signal is sent as soon as the
\* container is wrapped, before the templates and the includes.
ConfigureSendsFirst(w, input) ==
  LET Resolved(sent, inc) ==
        IF sent.raised
        THEN CallRaised(Settings(update(EmptyDict, input)), ReceiverError,
                        <<sent.note>>, <<>>, <<"configure">>)
        ELSE IF inc.out = "raise"
             THEN CallRaised(Settings(inc.d), inc.err, <<sent.note>>, inc.calls,
                             <<"configure">>)
             ELSE CallReturned(Settings(inc.d), None, <<sent.note>>, inc.calls,
                               <<"configure">>)
  IN IF ~w.isNone THEN CallRaised(w, AlreadyConfigured, <<>>, <<>>, <<"configure">>)
     ELSE Resolved(Send("post_settings_configured", "settings", update(EmptyDict, input)),
                   PatchIncludes(ApplyTemplates(global_templates,
                                                update(EmptyDict, input)), <<>>))

\* Another: the test of line 494 is missing, a configured wrapper is
\* configured over.
ConfigureAgain(w, input) ==
  LET Resolved(inc) ==
        IF inc.out = "raise"
        THEN CallRaised(Settings(inc.d), inc.err, <<>>, inc.calls, <<"configure">>)
        ELSE Published(inc, Send("post_settings_configured", "settings", inc.d))
  IN Resolved(PatchIncludes(ApplyTemplates(global_templates, update(EmptyDict, input)),
                            <<>>))

\* LazySettings.configure(input): the wrapper is tested, the Settings object
\* made of the input and installed, the templates applied, the includes
\* patched in, the signal sent.
Configure(w, input) ==
  LET Resolved(inc) ==
        IF inc.out = "raise"
        THEN CallRaised(Settings(inc.d), inc.err, <<>>, inc.calls, <<"configure">>)
        ELSE Published(inc, Send("post_settings_configured", "settings", inc.d))
  IN IF ~w.isNone THEN CallRaised(w, AlreadyConfigured, <<>>, <<>>, <<"configure">>)
     ELSE Resolved(PatchIncludes(ApplyTemplates(global_templates,
                                                update(EmptyDict, input)), <<>>))

NotConfigured == ImproperlyConfigured(ENVIRONMENT_VARIABLE)

\* A bug _setup could have: the name of the file is put in the container
\* that configure is given, before the signal is sent.
SetupRecordsFirst(w) ==
  LET Configured(c) == [c EXCEPT !.inner = <<"_setup">> \o c.inner]
  IN IF ENVIRONMENT_VARIABLE \notin DOMAIN env \/ env[ENVIRONMENT_VARIABLE] = ""
     THEN CallRaised(w, NotConfigured, <<>>, <<>>, <<"_setup">>)
     ELSE IF env[ENVIRONMENT_VARIABLE] \notin DOMAIN Files
          THEN CallRaised(w, Error("FileNotFoundError", env[ENVIRONMENT_VARIABLE]),
                          <<>>, <<>>, <<"_setup">>)
          ELSE Configured(Configure(w,
                 update(Files[env[ENVIRONMENT_VARIABLE]],
                        "config_file" :> Str(env[ENVIRONMENT_VARIABLE]))))

\* LazySettings._setup()
Setup(w) ==
  LET Configured(c) ==
        IF c.out = "raise" THEN [c EXCEPT !.inner = <<"_setup">> \o c.inner]
        ELSE [c EXCEPT !.inner = <<"_setup">> \o c.inner,
                       !.w.d = update(c.w.d, "config_file" :> Str(env[ENVIRONMENT_VARIABLE]))]
  IN IF ENVIRONMENT_VARIABLE \notin DOMAIN env \/ env[ENVIRONMENT_VARIABLE] = ""
     THEN CallRaised(w, NotConfigured, <<>>, <<>>, <<"_setup">>)
     ELSE IF env[ENVIRONMENT_VARIABLE] \notin DOMAIN Files
          THEN CallRaised(w, Error("FileNotFoundError", env[ENVIRONMENT_VARIABLE]),
                          <<>>, <<>>, <<"_setup">>)
          ELSE Configured(Configure(w, Files[env[ENVIRONMENT_VARIABLE]]))

\* ObjectDict.__contains__(name): a dotted name is looked up level by level
RECURSIVE Contains(_, _)
Contains(d, name) ==
  LET dots == {i \in 1..Len(name) : Ch(name, i) = "."} IN
  IF dots = {} THEN name \in DOMAIN d
  ELSE LET first == SubSeq(name, 1, SetMin(dots) - 1)
           rest == SubSeq(name, SetMin(dots) + 1, Len(name))
       IN /\ first \in DOMAIN d
          /\ IF d[first].k = "dict" THEN Contains(d[first].d, rest)
             ELSE /\ IsString(d[first])
                  /\ \E i \in 1..(Len(d[first].v) + 1) :
                       SubSeq(d[first].v, i, i + Len(rest) - 1) = rest

Bool(b) == Scalar(IF b THEN "True" ELSE "False")

\* The read r of the container of w, as a call of the method op
Read(w, op, r) ==
  [w |-> [w EXCEPT !.d = r.d], out |-> r.out, err |-> r.err, val |-> r.val,
   notes |-> <<>>, calls |-> r.calls, inner |-> <<op>>]

\* What the magic methods of LazyObject do once _wrapped is set: the call is
\* handed to the Settings object.
Serve(w, op, name, value) ==
  CASE op = "__getattr__" -> Read(w, op, Getattr(w.d, <<>>, name))
    [] op = "__setattr__" ->
         CallReturned([w EXCEPT !.d = update(w.d, name :> value)], None, <<>>, <<>>, <<op>>)
    [] op = "__delattr__" -> CallRaised(w, AttributeError(name), <<>>, <<>>, <<op>>)
    [] op = "__getitem__" ->
         IF name \in DOMAIN w.d THEN CallReturned(w, w.d[name], <<>>, <<>>, <<op>>)
         ELSE CallRaised(w, KeyError(name), <<>>, <<>>, <<op>>)
    [] op = "__setitem__" ->
         CallReturned([w EXCEPT !.d = SetItem(w.d, name, value)], None, <<>>, <<>>, <<op>>)
    [] op = "__delitem__" ->
         IF name \in DOMAIN w.d
         THEN CallReturned([w EXCEPT !.d = DelItem(w.d, name)], None, <<>>, <<>>, <<op>>)
         ELSE CallRaised(w, KeyError(name), <<>>, <<>>, <<op>>)
    [] op = "__len__" ->
         CallReturned(w, Scalar(ToString(Cardinality(DOMAIN w.d))), <<>>, <<>>, <<op>>)
    [] op = "__contains__" ->
         CallReturned(w, Bool(Contains(w.d, name)), <<>>, <<>>, <<op>>)
    [] op = "__iter__" ->
         CallReturned(w, Dict([key \in DOMAIN w.d |-> None]), <<>>, <<>>, <<op>>)

\* c, then (when c returned) the call next makes of the state c left
Then(c, next) ==
  IF c.out = "raise" THEN c
  ELSE [next EXCEPT !.notes = c.notes \o next.notes,
                    !.calls = c.calls \o next.calls,
                    !.inner = c.inner \o next.inner]

\* A bug the magic methods could have: the call is handed to _wrapped without
\* the test for None, so nothing sets an unconfigured wrapper up.
AccessWithoutSetup(w, op, name, value) ==
  IF w.isNone THEN CallRaised(w, AttributeError(op), <<>>, <<>>, <<op>>)
  ELSE Serve(w, op, name, value)

\* The magic methods of LazyObject: __getattr__, __setattr__, __delattr__,
\* __getitem__, __setitem__, __delitem__, __len__, __contains__, __iter__
Access(w, op, name, value) ==
  LET Served(s) == IF s.out = "raise" THEN s ELSE Then(s, Serve(s.w, op, name, value))
  IN IF w.isNone THEN Served(Setup(w)) ELSE Serve(w, op, name, value)

\* copy.deepcopy of the container: a value of its own, equal to the original
deepcopy(d) == d

\* A bug Settings.__enter__ could have: the backup list is made anew at
\* every enter.
SettingsEnterAnew(w) ==
  [w EXCEPT !.has_backup = TRUE, !.backup = <<deepcopy(w.d)>>]

\* Settings.__enter__
SettingsEnter(w) ==
  IF w.has_backup THEN [w EXCEPT !.backup = Append(w.backup, deepcopy(w.d))]
  ELSE [w EXCEPT !.has_backup = TRUE, !.backup = <<deepcopy(w.d)>>]

\* LazySettings.__enter__
Enter(w) ==
  LET Entered(s) ==
        IF s.out = "raise" THEN s
        ELSE Then(s, CallReturned(SettingsEnter(s.w), None, <<>>, <<>>, <<"__enter__">>))
  IN IF w.isNone THEN Entered(Setup(w))
     ELSE CallReturned(SettingsEnter(w), None, <<>>, <<>>, <<"__enter__">>)

\* A bug Settings.__exit__ could have: the backup is merged into the container
\* without the container being cleared first.
SettingsExitNoClear(w) ==
  IF ~w.has_backup
  THEN CallRaised(w, AttributeError("_backup"), <<>>, <<>>, <<"__exit__">>)
  ELSE IF w.backup = <<>>
       THEN CallRaised(w, Error("IndexError", "pop from empty list"),
                       <<>>, <<>>, <<"__exit__">>)
       ELSE CallReturned([w EXCEPT !.d = update(w.d, w.backup[Len(w.backup)]),
                                   !.backup = SubSeq(w.backup, 1, Len(w.backup) - 1)],
                         None, <<>>, <<>>, <<"__exit__">>)

\* A bug Settings.__exit__ could have: with nothing to pop it returns and
\* leaves the container alone.
SettingsExitSilent(w) ==
  IF ~w.has_backup \/ w.backup = <<>>
  THEN CallReturned(w, None, <<>>, <<>>, <<"__exit__">>)
  ELSE CallReturned([w EXCEPT !.d = update(EmptyDict, w.backup[Len(w.backup)]),
                              !.backup = SubSeq(w.backup, 1, Len(w.backup) - 1)],
                    None, <<>>, <<>>, <<"__exit__">>)

\* Another: the values that took the place of a settings_property inside
\* the scope are kept.
SettingsExitKeepsCache(w) ==
  LET top == update(EmptyDict, w.backup[Len(w.backup)])
      kept == [key \in DOMAIN top |->
                 IF top[key].k = "fn" /\ key \in DOMAIN w.d /\ w.d[key].k \notin {"fn", "dict"}
                 THEN w.d[key] ELSE top[key]]
  IN IF ~w.has_backup
     THEN CallRaised([w EXCEPT !.d = EmptyDict], AttributeError("_backup"),
                     <<>>, <<>>, <<"__exit__">>)
     ELSE IF w.backup = <<>>
          THEN CallRaised([w EXCEPT !.d = EmptyDict],
                          Error("IndexError", "pop from empty list"),
                          <<>>, <<>>, <<"__exit__">>)
          ELSE CallReturned([w EXCEPT !.d = kept,
                                      !.backup = SubSeq(w.backup, 1, Len(w.backup) - 1)],
                            None, <<>>, <<>>, <<"__exit__">>)

\* Another: the backup is popped before the container is cleared, so an
\* __exit__ that finds none leaves the container as it was.
SettingsExitPopsFirst(w) ==
  IF ~w.has_backup
  THEN CallRaised(w, AttributeError("_backup"), <<>>, <<>>, <<"__exit__">>)
  ELSE IF w.backup = <<>>
       THEN CallRaised(w, Error("IndexError", "pop from empty list"),
                       <<>>, <<>>, <<"__exit__">>)
       ELSE CallReturned([w EXCEPT !.d = update(EmptyDict, w.backup[Len(w.backup)]),
                                   !.backup = SubSeq(w.backup, 1, Len(w.backup) - 1)],
                         None, <<>>, <<>>, <<"__exit__">>)

\* Settings.__exit__: clear, pop the backup, update from it
SettingsExit(w) ==
  IF ~w.has_backup
  THEN CallRaised([w EXCEPT !.d = EmptyDict], AttributeError("_backup"),
                  <<>>, <<>>, <<"__exit__">>)
  ELSE IF w.backup = <<>>
       THEN CallRaised([w EXCEPT !.d = EmptyDict], Error("IndexError", "pop from empty list"),
                       <<>>, <<>>, <<"__exit__">>)
       ELSE CallReturned([w EXCEPT !.d = update(EmptyDict, w.backup[Len(w.backup)]),
                                   !.backup = SubSeq(w.backup, 1, Len(w.backup) - 1)],
                         None, <<>>, <<>>, <<"__exit__">>)

\* LazySettings.__exit__: Settings.__exit__, then the context signal
Exit(w) ==
  LET Sent(x, sent) ==
        IF sent.raised
        THEN CallRaised(x.w, Error("ReceiverError", "post_settings_context"),
                        <<sent.note>>, <<>>, <<"__exit__">>)
        ELSE CallReturned(x.w, None, <<sent.note>>, <<>>, <<"__exit__">>)
      Restored(x) ==
        IF x.out = "raise" THEN x
        ELSE Sent(x, Send("post_settings_context", "settings", x.w.d))
  IN IF w.isNone
     THEN CallRaised(w, AttributeError("__exit__"), <<>>, <<>>, <<"__exit__">>)
     ELSE Restored(SettingsExit(w))

\* The methods of a Settings object below the root (settings.compute, ...)
NestedServe(w, path, op, name, value) ==
  CASE op = "__getattr__" -> Read(w, op, Getattr(w.d, path, name))
    [] op = "__setattr__" ->
         CallReturned([w EXCEPT !.d = SetAt(w.d, path, update(GetAt(w.d, path), name :> value))],
                      None, <<>>, <<>>, <<op>>)
    [] op = "__delitem__" ->
         IF name \in DOMAIN GetAt(w.d, path)
         THEN CallReturned([w EXCEPT !.d = SetAt(w.d, path, DelItem(GetAt(w.d, path), name))],
                           None, <<>>, <<>>, <<op>>)
         ELSE CallRaised(w, KeyError(name), <<>>, <<>>, <<op>>)

\* path leads from the root to a nested container
RECURSIVE IsContainerAt(_, _)
IsContainerAt(d, path) ==
  IF path = <<>> THEN TRUE
  ELSE IF Head(path) \in DOMAIN d /\ d[Head(path)].k = "dict"
       THEN IsContainerAt(d[Head(path)].d, Tail(path))
       ELSE FALSE

(***************************************************************************)
(* The Signal class (terra/core/signals.py)                                *)
(***************************************************************************)
\* Objects are named by strings; the name of an object stands for the object
\* itself, and NoObject for None.
NoObject == "None"

\* _make_id(target): a value that tells the identity of target
make_id(target) == "id(" \o target \o ")"
NONE_ID == make_id(NoObject)

\* What the per-sender cache holds for a sender: the NO_RECEIVERS marker or
\* the receivers found for it; NotCached is what .get(sender) gives otherwise.
NO_RECEIVERS == [kind |-> "NO_RECEIVERS", list |-> <<>>]
CachedList(found) == [kind |-> "list", list |-> found]
NotCached == [kind |-> "None", list |-> <<>>]
CacheGet(cache, sender) == IF sender \in DOMAIN cache THEN cache[sender] ELSE NotCached

\* Signal(use_caching): a signal with nothing connected.  finalizers are the
\* receiver objects on which connect has registered _remove_receiver.
Signal(use_caching) ==
  [receivers |-> <<>>, cache |-> <<>>, dead |-> FALSE, use_caching |-> use_caching,
   finalizers |-> {}]

\* The key of connect and disconnect: dispatch_uid when one is given, else
\* the identity of the receiver, each with the identity of the sender
LookupKey(receiver, sender, dispatch_uid) ==
  IF dispatch_uid # NoObject
  THEN <<dispatch_uid, make_id(sender)>>
  ELSE <<make_id(receiver), make_id(sender)>>

\* One element of Signal.receivers: the key, and the receiver or the weak
\* reference to it
Entry(key, receiver, weak) == [key |-> key, receiver |-> receiver, weak |-> weak]

\* a reference that holds its referent for ever
NeverDead(e, live) == FALSE

\* r[1]() is None: the entry holds a weak reference whose referent is gone
IsDead(e, live) == e.weak /\ e.receiver \notin live

\* Lines 266 to 269 of _clear_dead_receivers: the entries that are not dead
RECURSIVE Filter(_, _)
Filter(list, live) ==
  IF list = <<>> THEN <<>>
  ELSE IF IsDead(Head(list), live)
       THEN Filter(Tail(list), live)
       ELSE <<Head(list)>> \o Filter(Tail(list), live)

\* _clear_dead_receivers, which its callers run holding the lock
clear_dead_receivers(b, live) ==
  IF b.dead
  THEN [b EXCEPT !.dead = FALSE, !.receivers = Filter(b.receivers, live)]
  ELSE b

\* A variant of the clearing that leaves the cache as it is
NotCleared(b) == b

\* self.sender_receivers_cache.clear(), the last line under the lock of
\* connect (line 143) and of disconnect (line 176)
Cleared(b) == [b EXCEPT !.cache = <<>>]

HasKey(list, key) == \E i \in 1..Len(list) : list[i].key = key

\* A variant of these lines that appends whatever the key
ConnectedAnyway(swept, key, receiver, weak) ==
  [swept EXCEPT !.receivers = Append(@, Entry(key, receiver, weak)),
                !.cache = <<>>]

\* Lines 139 to 143 of connect, on the signal swept holds, with the lock held
Connected(swept, key, receiver, weak) ==
  Cleared([swept EXCEPT !.receivers = IF HasKey(@, key) THEN @
                                      ELSE Append(@, Entry(key, receiver, weak))])

\* Signal.connect(receiver, sender, weak, dispatch_uid)
connect(b, receiver, sender, weak, dispatch_uid, live) ==
  Connected(clear_dead_receivers(
              [b EXCEPT !.finalizers = IF weak THEN @ \cup {receiver} ELSE @], live),
            LookupKey(receiver, sender, dispatch_uid), receiver, weak)

\* The first place of key in list, 0 when it has none
RECURSIVE IndexOf(_, _, _)
IndexOf(list, key, index) ==
  IF index > Len(list) THEN 0
  ELSE IF list[index].key = key THEN index
       ELSE IndexOf(list, key, index + 1)

Delete(list, index) == SubSeq(list, 1, index - 1) \o SubSeq(list, index + 1, Len(list))

\* A variant of these lines that removes the last entry, whatever its key
DisconnectedLast(swept, index) ==
  [b |-> [swept EXCEPT !.receivers = IF index = 0 THEN @ ELSE Delete(@, Len(@)),
                       !.cache = <<>>],
   ret |-> index # 0]

\* Lines 169 to 177 of disconnect, on the signal swept holds, with the lock held
Disconnected(swept, index) ==
  [b |-> Cleared([swept EXCEPT !.receivers = IF index = 0 THEN @ ELSE Delete(@, index)]),
   ret |-> index # 0]

\* Signal.disconnect(receiver, sender, dispatch_uid): the signal afterwards
\* and what is returned
disconnect(b, receiver, sender, dispatch_uid, live) ==
  LET Swept(swept) ==
        Disconnected(swept, IndexOf(swept.receivers,
                                    LookupKey(receiver, sender, dispatch_uid), 1))
  IN Swept(clear_dead_receivers(b, live))

\* A variant of these lines that takes every entry, whatever its sender
RECURSIVE ForAnySender(_, _)
ForAnySender(list, senderkey) ==
  IF list = <<>> THEN <<>>
  ELSE <<Head(list)>> \o ForAnySender(Tail(list), senderkey)

\* Lines 290 to 293 of _live_receivers: the entries for sender, in their order
RECURSIVE ForSender(_, _)
ForSender(list, senderkey) ==
  IF list = <<>> THEN <<>>
  ELSE IF Head(list).key[2] = NONE_ID \/ Head(list).key[2] = senderkey
       THEN <<Head(list)>> \o ForSender(Tail(list), senderkey)
       ELSE ForSender(Tail(list), senderkey)

\* Lines 302 to 311 of _live_receivers: the receivers the entries give, a weak
\* reference whose referent is gone giving none
RECURSIVE NonWeak(_, _)
NonWeak(list, live) ==
  IF list = <<>> THEN <<>>
  ELSE IF IsDead(Head(list), live)
       THEN NonWeak(Tail(list), live)
       ELSE <<Head(list).receiver>> \o NonWeak(Tail(list), live)

\* Lines 287 to 300 of _live_receivers, with the lock held: the signal swept,
\* the entries for sender found and, on a caching signal, stored
Resolved(b, sender, live) ==
  LET Found(swept, found) ==
        [b |-> IF swept.use_caching
               THEN [swept EXCEPT !.cache =
                       (sender :> IF found = <<>> THEN NO_RECEIVERS ELSE CachedList(found))
                       @@ @]
               ELSE swept,
         found |-> found]
      Swept(swept) == Found(swept, ForSender(swept.receivers, make_id(sender)))
  IN Swept(clear_dead_receivers(b, live))

\* Signal._live_receivers(sender): the signal afterwards and the receivers
live_receivers(b, sender, live) ==
  LET Cached(c) ==
        IF c.kind = "NO_RECEIVERS" THEN [b |-> b, recs |-> <<>>]
        ELSE IF c.kind = "list" THEN [b |-> b, recs |-> NonWeak(c.list, live)]
        ELSE LET Got(r) == [b |-> r.b, recs |-> NonWeak(r.found, live)]
             IN Got(Resolved(b, sender, live))
  IN Cached(IF b.use_caching /\ ~b.dead THEN CacheGet(b.cache, sender) ELSE NotCached)

\* Signal.has_listeners(sender)
has_listeners(b, sender, live) ==
  LET Got(r) == [b |-> r.b, ret |-> r.recs # <<>>]
  IN Got(live_receivers(b, sender, live))

\* What a receiver does when it is called: it returns a response, it raises
\* an Exception, or it raises SystemExit, which is no Exception.
Behaviour == [r1 |-> "returns", r2 |-> "raises", r3 |-> "returns", r4 |-> "exits"]
Response(receiver) == [k |-> "response", v |-> "response of " \o receiver]
ErrorOf(receiver) ==
  [k |-> "error",
   v |-> IF Behaviour[receiver] = "exits" THEN "SystemExit" ELSE "Exception"]
NoErr == [k |-> "none", v |-> ""]

\* How a send ends: the signal afterwards, the receivers called in the order
\* of the calls, and the list returned or the error that left the call
Sent(b, invoked, pairs) ==
  [b |-> b, out |-> "returned", invoked |-> invoked, pairs |-> pairs, err |-> NoErr]
SendRaised(b, invoked, err) ==
  [b |-> b, out |-> "raised", invoked |-> invoked, pairs |-> <<>>, err |-> err]

\* A variant that does not look at TERRA_UNITTEST
FastExitNoTestMode(b, sender, environ) ==
  \/ b.receivers = <<>>
  \/ CacheGet(b.cache, sender) = NO_RECEIVERS

\* Lines 208 to 210 of send and 246 to 248 of send_robust
FastExit(b, sender, environ) ==
  \/ b.receivers = <<>>
  \/ CacheGet(b.cache, sender) = NO_RECEIVERS
  \/ ("TERRA_UNITTEST" \in DOMAIN environ /\ environ["TERRA_UNITTEST"] = "1")

\* A variant that goes on after an error
RECURSIVE ComprehensionGoesOn(_, _, _, _)
ComprehensionGoesOn(b, recs, invoked, pairs) ==
  IF recs = <<>>
  THEN IF \E i \in 1..Len(invoked) : Behaviour[invoked[i]] # "returns"
       THEN SendRaised(b, invoked, ErrorOf(invoked[
              CHOOSE i \in 1..Len(invoked) : Behaviour[invoked[i]] # "returns"
                /\ \A j \in 1..(i - 1) : Behaviour[invoked[j]] = "returns"]))
       ELSE Sent(b, invoked, pairs)
  ELSE ComprehensionGoesOn(b, Tail(recs), Append(invoked, Head(recs)),
         IF Behaviour[Head(recs)] = "returns"
         THEN Append(pairs, [receiver |-> Head(recs), result |-> Response(Head(recs))])
         ELSE pairs)

\* The list comprehension of send: each receiver is called in turn, and the
\* first error leaves the comprehension
RECURSIVE Comprehension(_, _, _, _)
Comprehension(b, recs, invoked, pairs) ==
  IF recs = <<>> THEN Sent(b, invoked, pairs)
  ELSE IF Behaviour[Head(recs)] = "returns"
       THEN Comprehension(b, Tail(recs), Append(invoked, Head(recs)),
                          Append(pairs, [receiver |-> Head(recs),
                                         result |-> Response(Head(recs))]))
       ELSE SendRaised(b, Append(invoked, Head(recs)), ErrorOf(Head(recs)))

\* Signal.send(sender)
send(b, sender, environ, live) ==
  IF FastExit(b, sender, environ) THEN Sent(b, <<>>, <<>>)
  ELSE LET Got(r) == Comprehension(r.b, r.recs, <<>>, <<>>)
       IN Got(live_receivers(b, sender, live))

\* A variant that leaves out the receivers that raise
RECURSIVE LoopDropsErrors(_, _, _, _)
LoopDropsErrors(b, recs, invoked, responses) ==
  IF recs = <<>> THEN Sent(b, invoked, responses)
  ELSE IF Behaviour[Head(recs)] = "exits"
       THEN SendRaised(b, Append(invoked, Head(recs)), ErrorOf(Head(recs)))
       ELSE LoopDropsErrors(b, Tail(recs), Append(invoked, Head(recs)),
                 IF Behaviour[Head(recs)] = "raises" THEN responses
                 ELSE Append(responses, [receiver |-> Head(recs),
                                         result |-> Response(Head(recs))]))

\* The loop of send_robust: an Exception becomes the result of its receiver,
\* any other error leaves the loop
RECURSIVE Loop(_, _, _, _)
Loop(b, recs, invoked, responses) ==
  IF recs = <<>> THEN Sent(b, invoked, responses)
  ELSE IF Behaviour[Head(recs)] = "exits"
       THEN SendRaised(b, Append(invoked, Head(recs)), ErrorOf(Head(recs)))
       ELSE Loop(b, Tail(recs), Append(invoked, Head(recs)),
                 Append(responses,
                        [receiver |-> Head(recs),
                         result |-> IF Behaviour[Head(recs)] = "raises"
                                    THEN ErrorOf(Head(recs))
                                    ELSE Response(Head(recs))]))

\* Signal.send_robust(sender)
send_robust(b, sender, environ, live) ==
  IF FastExit(b, sender, environ) THEN Sent(b, <<>>, <<>>)
  ELSE LET Got(r) == Loop(r.b, r.recs, <<>>, <<>>)
       IN Got(live_receivers(b, sender, live))

\* A finalizer that leaves the flag alone
ReceiverForgotten(b) == b

\* Signal._remove_receiver, which weakref.finalize calls when a receiver that
\* was connected weakly is released
remove_receiver(b) == [b EXCEPT !.dead = TRUE]

\* No call on the signal yet
NoBusCall ==
  [op |-> "", receiver |-> NoObject, sender |-> NoObject, dispatch_uid |-> NoObject,
   weak |-> FALSE, pre |-> Signal(FALSE), live |-> {}, out |-> "", ret |-> FALSE,
   invoked |-> <<>>, pairs |-> <<>>, err |-> NoErr]

\* The variables of the Signal, for the specifications that leave it alone.
BusIdle ==
  /\ bus = Signal(FALSE)
  /\ alive = {}
  /\ busLast = NoBusCall
  /\ lock = "free"
  /\ threads = <<>>

(***************************************************************************)
(* The actions: a call on the wrapper, recorded in last                    *)
(***************************************************************************)
NoCall == [op |-> "", at |-> <<>>, out |-> "", err |-> NoError, val |-> None,
           notes |-> <<>>, calls |-> <<>>, inner |-> <<>>, exc |-> FALSE,
           pre |-> NoneRef, after_reset |-> FALSE, uncached |-> {}]

\* The record of the call c made at a key path: how it ended, whether the body
\* of the with statement had raised (for __exit__), the wrapper before it,
\* whether the wrapper had just been reset, and when the call before it was
\* an __exit__, the keys that held a value before that __exit__ and hold a
\* settings_property since.
Record(op, at, c, exc) ==
  [op |-> op, at |-> at, out |-> c.out, err |-> c.err, val |-> c.val,
   notes |-> c.notes, calls |-> c.calls, inner |-> c.inner, exc |-> exc,
   pre |-> wrapped, after_reset |-> last.op = "reset",
   uncached |-> IF last.op = "__exit__"
                THEN {key \in DOMAIN wrapped.d \cap DOMAIN last.pre.d :
                        wrapped.d[key].k = "fn" /\ last.pre.d[key].k # "fn"}
                ELSE {}]

ReadOps == {"__getattr__", "__getitem__", "__len__", "__contains__", "__iter__"}

\* the calls Settings.__getattr__ made, with the singleton as self
AttrCalls(c) == SelectSeq(c.calls, LAMBDA call : call.self = "settings")

\* The bookkeeping of a call c made on the wrapper in state w: the keys
\* evaluated in a run of reads, those called again, the containers entered.
Track(w, op, c) ==
  LET base == IF op \in ReadOps /\ ~w.isNone THEN evaluated ELSE {}
      calls == AttrCalls(c)
  IN /\ evaluated' = base \cup {calls[j].at : j \in {i \in 1..Len(calls) : calls[i].ok}}
     /\ reinvoked' = reinvoked \cup
          {calls[j].at : j \in {i \in 1..Len(calls) :
              \/ calls[i].at \in base
              \/ \E h \in 1..(i - 1) : calls[h].at = calls[i].at /\ calls[h].ok}}

NotEntered(w, c) ==
  entered' = IF w.isNone # c.w.isNone THEN <<>> ELSE entered

\* the environment and the receivers stay as they are, and so do the templates
Frame == UNCHANGED <<global_templates, env, receivers, tplVars, busVars>>

\* settings.configure(input)
DoConfigure(input) ==
  \E c \in {Configure(wrapped, input)} :
  /\ wrapped' = c.w
  /\ last' = Record("configure", <<>>, c, FALSE)
  /\ Track(wrapped, "configure", c)
  /\ NotEntered(wrapped, c)
  /\ Frame

\* an attribute or key access on the wrapper: settings.name, settings[name],
\* len(settings), name in settings, iter(settings), and the writes
DoAccess(op, name, value) ==
  \E c \in {Access(wrapped, op, name, value)} :
  /\ wrapped' = c.w
  /\ last' = Record(op, <<name>>, c, FALSE)
  /\ Track(wrapped, op, c)
  /\ NotEntered(wrapped, c)
  /\ Frame

\* an access on a container below the root: settings.compute.name, ...
DoNested(path, op, name, value) ==
  /\ ~wrapped.isNone
  /\ path # <<>>
  /\ IsContainerAt(wrapped.d, path)
  /\ \E c \in {NestedServe(wrapped, path, op, name, value)} :
     /\ wrapped' = c.w
     /\ last' = Record(op, path \o <<name>>, c, FALSE)
     /\ Track(wrapped, op, c)
     /\ NotEntered(wrapped, c)
  /\ Frame

MaxDepth == 2
MaxRegistry == 5

\* with settings: the __enter__
DoEnter ==
  /\ Len(wrapped.backup) < MaxDepth
  /\ \E c \in {Enter(wrapped)} :
     /\ wrapped' = c.w
     /\ last' = Record("__enter__", <<>>, c, FALSE)
     /\ Track(wrapped, "__enter__", c)
     /\ entered' = IF c.out = "ok"
                   THEN Append(IF wrapped.isNone THEN <<>> ELSE entered, c.w.d)
                   ELSE IF wrapped.isNone # c.w.isNone THEN <<>> ELSE entered
  /\ Frame

\* with settings: the __exit__, after a body that returned or one that raised
DoExit(exc) ==
  \E c \in {Exit(wrapped)} :
  /\ wrapped' = c.w
  /\ last' = Record("__exit__", <<>>, c, exc)
  /\ Track(wrapped, "__exit__", c)
  /\ entered' = IF entered # <<>> THEN SubSeq(entered, 1, Len(entered) - 1) ELSE entered
  /\ Frame

\* mock.patch.object(settings, '_wrapped', None), as the tests do
DoReset ==
  /\ ~wrapped.isNone
  /\ wrapped' = NoneRef
  /\ last' = [NoCall EXCEPT !.op = "reset", !.out = "ok"]
  /\ evaluated' = {}
  /\ entered' = <<>>
  /\ UNCHANGED <<reinvoked, global_templates, env, receivers, tplVars, busVars>>

\* settings.add_templates(templates)
DoAddTemplates(templates) ==
  /\ Len(global_templates) + Len(templates) <= MaxRegistry
  /\ global_templates' = add_templates(global_templates, templates)
  /\ last' = [NoCall EXCEPT !.op = "add_templates", !.out = "ok"]
  /\ UNCHANGED <<wrapped, env, receivers, evaluated, reinvoked, entered, tplVars, busVars>>

\* The variables of the wrapper, for the specifications that leave it alone.
WrapperIdle ==
  /\ wrapped = NoneRef
  /\ env = EmptyDict
  /\ receivers = NoReceivers
  /\ last = NoCall
  /\ evaluated = {}
  /\ reinvoked = {}
  /\ entered = <<>>

NoAdd == [before |-> <<>>, new |-> <<>>]

TemplatesIdle ==
  /\ tIn = EmptyDict
  /\ tOut = <<>>
  /\ tLast = [kind |-> "none", t |-> Template(EmptyDict, EmptyDict)]
  /\ added = NoAdd
  /\ BusIdle

(***************************************************************************)
(* Specification SpecRead: a configured container and reads of its keys    *)
(***************************************************************************)
HomeEnv == "HOME" :> "/home/user"

ReadInputs == {
  ("compute" :> Dict("arch" :> Str("terra.compute.virtualenv")))
    @@ ("report" :> Func("app_report")) @@ ("summary" :> Func("app_summary")),
  ("lookup" :> Func("app_lookup")) @@ ("checked_dir" :> Func("app_checked_dir")),
  ("lookup" :> Func("app_lookup")) @@ ("app_key" :> Str("$HOME/key"))
    @@ ("app_dir" :> Str("~/$APP")) @@ ("app_name" :> Str("~/$APP"))
}

\* The environment of the reads: the value of APP holds a $ itself, so that
\* an expansion leaves text that a second expansion would change
ReadEnv == HomeEnv @@ ("APP" :> "$HOME/app")

ReadNames == {"status_file", "processing_dir", "unittest", "lookup", "checked_dir", "absent",
              "app_dir", "app_name", "report", "summary"}

ReadInit ==
  /\ wrapped = NoneRef
  /\ global_templates = BuiltinTemplates
  /\ env \in {ReadEnv, ReadEnv @@ (ENVIRONMENT_VARIABLE :> "/cfg/config.json")}
  /\ receivers = NoReceivers
  /\ last = NoCall
  /\ evaluated = {}
  /\ reinvoked = {}
  /\ entered = <<>>
  /\ TemplatesIdle

ReadNext ==
  \/ \E input \in ReadInputs : DoConfigure(input)
  \/ \E op \in {"__getattr__", "__getitem__"} : \E name \in ReadNames :
       DoAccess(op, name, None)
  \/ \E name \in {"arch", "virtualenv_dir"} :
       DoNested(<<"compute">>, "__getattr__", name, None)

SpecRead == ReadInit /\ [][ReadNext]_vars

(***************************************************************************)
(* Specification SpecScope: with settings, and writes inside the scopes    *)
(***************************************************************************)
ScopeInit ==
  /\ wrapped = NoneRef
  /\ global_templates = BuiltinTemplates
  /\ env = HomeEnv @@ (ENVIRONMENT_VARIABLE :> "/cfg/config.json")
  /\ receivers \in {[NoReceivers EXCEPT !.post_settings_context = rs] :
                      rs \in {<<>>, <<"ok">>, <<"raises">>}}
  /\ last = NoCall
  /\ evaluated = {}
  /\ reinvoked = {}
  /\ entered = <<>>
  /\ TemplatesIdle

ScopeNext ==
  \/ DoConfigure("resume" :> Scalar("True"))
  \/ DoEnter
  \/ \E exc \in BOOLEAN : DoExit(exc)
  \/ DoAccess("__setattr__", "extra", Dict("depth" :> Scalar("1")))
  \/ DoAccess("__delitem__", "resume", None)
  \/ DoNested(<<"compute">>, "__setattr__", "arch", Str("docker"))
  \/ \E name \in {"unittest", "processing_dir"} : DoAccess("__getattr__", name, None)

SpecScope == ScopeInit /\ [][ScopeNext]_vars

(***************************************************************************)
(* Specification SpecSetup: the implicit setup with receivers of            *)
(* post_settings_configured that read settings.processing_dir              *)
(***************************************************************************)
SetupReceivers == {<<>>, <<"reads">>, <<"ok", "reads">>, <<"reads", "raises">>,
                   <<"raises", "reads">>}

SetupNames == {"processing_dir", "status_file", "config_file"}

SetupInit ==
  /\ wrapped = NoneRef
  /\ global_templates = BuiltinTemplates
  /\ env \in {HomeEnv @@ file @@ unittest :
                file \in {EmptyDict, ENVIRONMENT_VARIABLE :> "/cfg/config.json"},
                unittest \in {EmptyDict, "TERRA_UNITTEST" :> "1"}}
  /\ receivers \in {[NoReceivers EXCEPT !.post_settings_configured = rs] :
                      rs \in SetupReceivers}
  /\ last = NoCall
  /\ evaluated = {}
  /\ reinvoked = {}
  /\ entered = <<>>
  /\ TemplatesIdle

SetupNext ==
  \/ DoConfigure(EmptyDict)
  \/ \E name \in SetupNames : DoAccess("__getattr__", name, None)
  \/ DoAccess("__setattr__", "resume", Scalar("True"))
  \/ DoReset

SpecSetup == SetupInit /\ [][SetupNext]_vars

(***************************************************************************)
(* Specification Spec: the life of the wrapper, from unconfigured on       *)
(***************************************************************************)
MagicMethods == {"__getattr__", "__setattr__", "__delattr__", "__getitem__",
                 "__setitem__", "__delitem__", "__len__", "__contains__", "__iter__"}

\* A template an application adds: a file of defaults to include
IncludeTemplate == Template(EmptyDict, "extra_json" :> Str("/cfg/extra.json"))

ConfigureInputs == {
  EmptyDict,
  "compute" :> Dict("arch" :> Str("virtualenv")),
  "more_json" :> Str("/cfg/missing.json"),
  "more_json" :> Func("app_extra_json")
}

Init ==
  /\ wrapped = NoneRef
  /\ global_templates = BuiltinTemplates
  /\ env \in {HomeEnv @@ file @@ unittest :
                file \in {EmptyDict, ENVIRONMENT_VARIABLE :> "",
                          ENVIRONMENT_VARIABLE :> "/cfg/config.json",
                          ENVIRONMENT_VARIABLE :> "/cfg/missing.json"},
                unittest \in {EmptyDict, "TERRA_UNITTEST" :> "1"}}
  /\ receivers \in {[NoReceivers EXCEPT !.post_settings_configured = rs] :
                      rs \in {<<>>, <<"ok">>, <<"ok", "raises">>}}
  /\ last = NoCall
  /\ evaluated = {}
  /\ reinvoked = {}
  /\ entered = <<>>
  /\ TemplatesIdle

Next ==
  \/ \E input \in ConfigureInputs : DoConfigure(input)
  \/ \E op \in MagicMethods : DoAccess(op, "resume", Scalar("True"))
  \/ DoReset
  \/ DoAddTemplates(<<IncludeTemplate>>)

Spec == Init /\ [][Next]_vars

(***************************************************************************)
(* Specification SpecTemplate: one template applied to one container, for  *)
(* every template and container over a small set of keys and leaves.       *)
(***************************************************************************)
TplKeys == {"compute", "resume"}
TplSubKeys == {"arch"}
TplLeaves == {Str("virtualenv"), Scalar("False")}

PartialFns(K, V) == UNION {[S -> V] : S \in SUBSET K}

SmallDicts == PartialFns(TplSubKeys, TplLeaves)
SmallContainers == PartialFns(TplKeys, TplLeaves \cup {Dict(d) : d \in SmallDicts})
SmallTemplates == {Template(p, d) : p \in SmallContainers, d \in SmallContainers}

TInit ==
  /\ WrapperIdle
  /\ global_templates = BuiltinTemplates
  /\ tIn \in SmallContainers
  /\ tOut = <<>>
  /\ tLast = [kind |-> "none", t |-> Template(EmptyDict, EmptyDict)]
  /\ added = NoAdd
  /\ BusIdle

TApplyTemplate(t) ==
  /\ tOut = <<>>
  /\ tOut' = <<ApplyTemplate(t.pattern, t.defaults, tIn)>>
  /\ tLast' = [kind |-> "one", t |-> t]
  /\ UNCHANGED <<wrapperVars, global_templates, tIn, added, busVars>>

TNext == \E t \in SmallTemplates : TApplyTemplate(t)

SpecTemplate == TInit /\ [][TNext]_vars

(***************************************************************************)
(* Specification SpecRegistry: add_templates on the registry, then the     *)
(* whole registry applied to a container, and applied again.               *)
(***************************************************************************)
MaxNew == 2
MaxPasses == 2

\* Templates an application adds: one conditional on the default compute
\* arch, one that makes virtualenv the default arch.
AppTemplates == {
  Template("compute" :> Dict("arch" :> Str("terra.compute.dummy")),
           "app" :> Dict("runner" :> Str("dummy_runner"))),
  Template(EmptyDict, "compute" :> Dict("arch" :> Str("virtualenv")))
}

SeqsUpTo(S, n) == UNION {[1..m -> S] : m \in 1..n}

RAddTemplates(templates) ==
  /\ tOut = <<>>
  /\ Len(global_templates) + Len(templates) <= MaxRegistry
  /\ global_templates' = add_templates(global_templates, templates)
  /\ UNCHANGED <<wrapperVars, tplVars, busVars>>

RApplyTemplates ==
  /\ Len(tOut) < MaxPasses
  /\ tOut' = Append(tOut, ApplyTemplates(global_templates,
                            IF tOut = <<>> THEN tIn ELSE tOut[Len(tOut)]))
  /\ tLast' = [kind |-> "all", t |-> Template(EmptyDict, EmptyDict)]
  /\ UNCHANGED <<wrapperVars, global_templates, tIn, added, busVars>>

RNext ==
  \/ \E templates \in SeqsUpTo(AppTemplates, MaxNew) : RAddTemplates(templates)
  \/ RApplyTemplates

SpecRegistry == TInit /\ [][RNext]_vars

(***************************************************************************)
(* Specification SpecAddTemplates: add_templates on a registry of any      *)
(* length, the empty one included (global_templates is a plain module      *)
(* level list, which an application may clear or replace).                 *)
(***************************************************************************)
MaxOld == 2

AddTemplates == AppTemplates \cup {Template(EmptyDict, "resume" :> Scalar("False"))}

AInit ==
  /\ WrapperIdle
  /\ TemplatesIdle
  /\ global_templates \in {<<>>} \cup SeqsUpTo(AddTemplates, MaxOld)

\* settings.add_templates(templates)
AAddTemplates(templates) ==
  /\ Len(global_templates) + Len(templates) <= MaxRegistry
  /\ global_templates' = add_templates(global_templates, templates)
  /\ added' = [before |-> global_templates, new |-> templates]
  /\ UNCHANGED <<wrapperVars, tIn, tOut, tLast, busVars>>

ANext == \E templates \in SeqsUpTo(AddTemplates, MaxNew) : AAddTemplates(templates)

SpecAddTemplates == AInit /\ [][ANext]_vars

(***************************************************************************)
(* Specification SpecSignal: one Signal, with or without the per-sender    *)
(* cache, called from one thread: connect, disconnect, send, send_robust   *)
(* and has_listeners, and receivers that are released.                     *)
(***************************************************************************)
MaxReceivers == 3

Receivers == DOMAIN Behaviour
Senders == {NoObject, "s1", "s2"}

\* The connect calls: r1 for every sender, held weakly; r2, which raises, for
\* every sender, held by the signal; r3 for s1, held weakly, by itself and as
\* "u1"; r1 for s1 as "u1" as well; r4, which exits, for s2.
Connection(receiver, sender, weak, dispatch_uid) ==
  [receiver |-> receiver, sender |-> sender, weak |-> weak, dispatch_uid |-> dispatch_uid]
ConnectCalls == {
  Connection("r1", NoObject, TRUE, NoObject),
  Connection("r2", NoObject, FALSE, NoObject),
  Connection("r3", "s1", TRUE, NoObject),
  Connection("r3", "s1", TRUE, "u1"),
  Connection("r1", "s1", FALSE, "u1"),
  Connection("r4", "s2", FALSE, NoObject)
}

\* The disconnect calls: those that undo a connect call, by the receiver or
\* by the dispatch_uid alone
DisconnectCalls ==
  {Connection(IF c.dispatch_uid # NoObject THEN NoObject ELSE c.receiver,
              c.sender, FALSE, c.dispatch_uid) : c \in ConnectCalls}

\* The senders a signal can be sent for: the cache of a caching signal is a
\* WeakKeyDictionary, which takes no None
SendersOf(b) == IF b.use_caching THEN Senders \ {NoObject} ELSE Senders

BusCall(op, c) ==
  [NoBusCall EXCEPT !.op = op, !.receiver = c.receiver, !.sender = c.sender,
                    !.dispatch_uid = c.dispatch_uid, !.weak = c.weak,
                    !.pre = bus, !.live = alive, !.out = "returned"]

BusFrame == UNCHANGED <<wrapperVars, global_templates, tplVars, alive, lock, threads>>

SInit ==
  /\ wrapped = NoneRef
  /\ global_templates = BuiltinTemplates
  /\ env \in {HomeEnv, HomeEnv @@ ("TERRA_UNITTEST" :> "1")}
  /\ receivers = NoReceivers
  /\ last = NoCall
  /\ evaluated = {}
  /\ reinvoked = {}
  /\ entered = <<>>
  /\ tIn = EmptyDict
  /\ tOut = <<>>
  /\ tLast = [kind |-> "none", t |-> Template(EmptyDict, EmptyDict)]
  /\ added = NoAdd
  /\ bus \in {Signal(use_caching) : use_caching \in BOOLEAN}
  /\ alive = Receivers
  /\ busLast = NoBusCall
  /\ lock = "free"
  /\ threads = <<>>

\* signal.connect(receiver, sender, weak, dispatch_uid)
SConnect(c) ==
  /\ c.receiver \in alive
  /\ Len(bus.receivers) < MaxReceivers
  /\ bus' = connect(bus, c.receiver, c.sender, c.weak, c.dispatch_uid, alive)
  /\ busLast' = BusCall("connect", c)
  /\ BusFrame

\* signal.disconnect(receiver, sender, dispatch_uid)
SDisconnect(c) ==
  /\ c.receiver \in alive \cup {NoObject}
  /\ \E d \in {disconnect(bus, c.receiver, c.sender, c.dispatch_uid, alive)} :
       /\ bus' = d.b
       /\ busLast' = [BusCall("disconnect", c) EXCEPT !.ret = d.ret]
  /\ BusFrame

\* signal.send(sender)
SSend(sender) ==
  /\ \E r \in {send(bus, sender, env, alive)} :
       /\ bus' = r.b
       /\ busLast' = [BusCall("send", Connection(NoObject, sender, FALSE, NoObject))
                        EXCEPT !.out = r.out, !.invoked = r.invoked, !.pairs = r.pairs,
                               !.err = r.err]
  /\ BusFrame

\* signal.send_robust(sender)
SSendRobust(sender) ==
  /\ \E r \in {send_robust(bus, sender, env, alive)} :
       /\ bus' = r.b
       /\ busLast' = [BusCall("send_robust", Connection(NoObject, sender, FALSE, NoObject))
                        EXCEPT !.out = r.out, !.invoked = r.invoked, !.pairs = r.pairs,
                               !.err = r.err]
  /\ BusFrame

\* signal.has_listeners(sender)
SHasListeners(sender) ==
  /\ \E r \in {has_listeners(bus, sender, alive)} :
       /\ bus' = r.b
       /\ busLast' = [BusCall("has_listeners", Connection(NoObject, sender, FALSE, NoObject))
                        EXCEPT !.ret = r.ret]
  /\ BusFrame

\* The signal holds receiver itself: an entry, or a cached list, has it and
\* not a weak reference to it
HeldBy(b, receiver) ==
  \/ \E i \in 1..Len(b.receivers) :
       b.receivers[i].receiver = receiver /\ ~b.receivers[i].weak
  \/ \E sender \in DOMAIN b.cache : \E i \in 1..Len(b.cache[sender].list) :
       b.cache[sender].list[i].receiver = receiver /\ ~b.cache[sender].list[i].weak

\* The last reference to a receiver is dropped: the weak references to it go
\* dead and the finalizer that connect registered runs
SRelease(receiver) ==
  /\ receiver \in alive
  /\ ~HeldBy(bus, receiver)
  /\ alive' = alive \ {receiver}
  /\ bus' = IF receiver \in bus.finalizers
            THEN remove_receiver([bus EXCEPT !.finalizers = @ \ {receiver}])
            ELSE bus
  /\ busLast' = [NoBusCall EXCEPT !.op = "release", !.receiver = receiver,
                                   !.pre = bus, !.live = alive]
  /\ UNCHANGED <<wrapperVars, global_templates, tplVars, lock, threads>>

SNext ==
  \/ \E c \in ConnectCalls : SConnect(c)
  \/ \E c \in DisconnectCalls : SDisconnect(c)
  \/ \E sender \in SendersOf(bus) : SSend(sender)
  \/ \E sender \in SendersOf(bus) : SSendRobust(sender)
  \/ \E sender \in SendersOf(bus) : SHasListeners(sender)
  \/ \E receiver \in Receivers : SRelease(receiver)

SpecSignal == SInit /\ [][SNext]_vars

(***************************************************************************)
(* Specification SpecConcurrent: one Signal called from two threads.  A    *)
(* call is a sequence of steps, and the steps of the threads interleave:   *)
(* what a call does before it takes the lock, the wait for the lock, the   *)
(* block under "with self.lock", the release, and for a send the           *)
(* dereferencing and one step for each receiver it calls.  A receiver may  *)
(* call the signal itself: here r1 disconnects r3 and r3 connects r2       *)
(* when they are called.  A receiver held weakly may be released between   *)
(* any two steps.                                                          *)
(***************************************************************************)
MaxCalls == 2

Threads == {"t1", "t2"}

Invocation(op, c) ==
  [op |-> op, receiver |-> c.receiver, sender |-> c.sender, weak |-> c.weak,
   dispatch_uid |-> c.dispatch_uid]
NoInvocation == Invocation("", Connection(NoObject, NoObject, FALSE, NoObject))

\* The calls a thread makes
ThreadCalls == {
  Invocation("connect", Connection("r1", NoObject, TRUE, NoObject)),
  Invocation("connect", Connection("r3", "s1", TRUE, NoObject)),
  Invocation("disconnect", Connection("r3", "s1", FALSE, NoObject)),
  Invocation("send", Connection(NoObject, "s1", FALSE, NoObject))
}

\* The call a receiver makes on the signal when it is called
CallsBack(receiver) ==
  IF receiver = "r1"
  THEN Invocation("disconnect", Connection("r3", "s1", FALSE, NoObject))
  ELSE IF receiver = "r3"
       THEN Invocation("connect", Connection("r2", NoObject, FALSE, NoObject))
       ELSE NoInvocation

\* A thread: where it is in its call (pc), the call, the receiver it is
\* calling that has made a call itself (running) and that call (inner), the
\* entries and then the receivers of its send, the number of calls it has
\* begun, whether a call made by a receiver has returned (back), whether
\* its _clear_dead_receivers found the flag set (sweeps), the entries that
\* were dead, their finalizer run, when its call began (stale), the receivers
\* its send got from _live_receivers (fixed), those it has called (invoked),
\* those of them that had no entry in the list when they were called (gone),
\* and what its last disconnect returned (ret).
IdleThread ==
  [pc |-> "idle", call |-> NoInvocation, running |-> NoObject, inner |-> NoInvocation,
   found |-> <<>>,
   recs |-> <<>>, calls |-> 0, back |-> FALSE, sweeps |-> FALSE, stale |-> {},
   fixed |-> <<>>, invoked |-> <<>>, gone |-> {}, ret |-> FALSE]

\* The entry holds a weak reference whose referent is gone and whose
\* finalizer has run
Finalized(b, e, live) == IsDead(e, live) /\ e.receiver \notin b.finalizers

StaleEntries(b, live) ==
  {b.receivers[i] : i \in {j \in 1..Len(b.receivers) : Finalized(b, b.receivers[j], live)}}

\* The call a thread is in: the one its receiver made, if any
Current(th) == IF th.inner.op # "" THEN th.inner ELSE th.call

\* The entries of the list have receiver
HasEntry(b, receiver) == \E i \in 1..Len(b.receivers) : b.receivers[i].receiver = receiver

\* A send that leaves out the receivers that have been disconnected since
\* it got its list
RECURSIVE RestStillConnected(_, _)
RestStillConnected(recs, b) ==
  IF Len(recs) <= 1 THEN <<>>
  ELSE IF HasEntry(b, recs[2])
       THEN <<recs[2]>> \o RestStillConnected(Tail(recs), b)
       ELSE RestStillConnected(Tail(recs), b)

\* Lines 213 to 216 of send: the comprehension goes through the list that
\* _live_receivers returned; recs is what is left of it, the receiver being
\* called included
Rest(recs, b) == Tail(recs)

\* A variant of the release that keeps the lock
StillHeld(l, t) == l

\* The end of a "with self.lock" block
Released(l, t) == "free"

ThreadFrame == UNCHANGED <<wrapperVars, global_templates, tplVars, busLast>>

CInit ==
  /\ wrapped = NoneRef
  /\ global_templates = BuiltinTemplates
  /\ env = HomeEnv
  /\ receivers = NoReceivers
  /\ last = NoCall
  /\ evaluated = {}
  /\ reinvoked = {}
  /\ entered = <<>>
  /\ tIn = EmptyDict
  /\ tOut = <<>>
  /\ tLast = [kind |-> "none", t |-> Template(EmptyDict, EmptyDict)]
  /\ added = NoAdd
  /\ bus \in {Signal(use_caching) : use_caching \in BOOLEAN}
  /\ alive = Receivers
  /\ busLast = NoBusCall
  /\ lock = "free"
  /\ threads = [t \in Threads |-> IdleThread]

\* A thread begins connect (lines 124 to 137: the key, the weak reference and
\* the finalizer) or disconnect (lines 162 to 166), up to the lock
CBegin(t, c) ==
  /\ threads[t].pc = "idle"
  /\ threads[t].calls < MaxCalls
  /\ c.op \in {"connect", "disconnect"}
  /\ c.receiver \in alive \cup (IF c.op = "disconnect" THEN {NoObject} ELSE {})
  /\ c.op = "connect" => Len(bus.receivers) < MaxReceivers
  /\ bus' = IF c.op = "connect" /\ c.weak
            THEN [bus EXCEPT !.finalizers = @ \cup {c.receiver}]
            ELSE bus
  /\ threads' = [threads EXCEPT ![t].pc = "acquire", ![t].call = c, ![t].calls = @ + 1,
                                ![t].stale = StaleEntries(bus, alive)]
  /\ UNCHANGED <<alive, lock>>
  /\ ThreadFrame

\* A thread begins send: lines 208 to 211
CBeginSend(t, c) ==
  /\ threads[t].pc = "idle"
  /\ threads[t].calls < MaxCalls
  /\ c.op = "send"
  /\ threads' = [threads EXCEPT ![t].pc = IF FastExit(bus, c.sender, env)
                                          THEN "idle" ELSE "lookup",
                                ![t].call = c, ![t].calls = @ + 1,
                                ![t].stale = StaleEntries(bus, alive)]
  /\ UNCHANGED <<bus, alive, lock>>
  /\ ThreadFrame

\* Lines 280 to 286 of _live_receivers: the cache is read, without the lock
CLookup(t) ==
  /\ threads[t].pc = "lookup"
  /\ \E cached \in {IF bus.use_caching /\ ~bus.dead
                     THEN CacheGet(bus.cache, threads[t].call.sender)
                     ELSE NotCached} :
       threads' = [threads EXCEPT
                     ![t].pc = IF cached.kind = "NO_RECEIVERS" THEN "idle"
                               ELSE IF cached.kind = "list" THEN "deref"
                               ELSE "acquire",
                     ![t].found = cached.list]
  /\ UNCHANGED <<bus, alive, lock>>
  /\ ThreadFrame

\* "with self.lock": the thread waits until the lock is free and takes it
CAcquire(t) ==
  /\ threads[t].pc = "acquire"
  /\ lock = "free"
  /\ lock' = t
  /\ threads' = [threads EXCEPT ![t].pc = "sweep"]
  /\ UNCHANGED <<bus, alive>>
  /\ ThreadFrame

\* Lines 265 and 266 of _clear_dead_receivers, the first thing under the lock:
\* the flag is read and, when it is set, reset; the list is filtered in the
\* next step, and a finalizer may run in between
CSweep(t) ==
  /\ threads[t].pc = "sweep"
  /\ bus' = [bus EXCEPT !.dead = FALSE]
  /\ threads' = [threads EXCEPT ![t].pc = "locked", ![t].sweeps = bus.dead]
  /\ UNCHANGED <<alive, lock>>
  /\ ThreadFrame

\* The rest of the block under the lock: the list filtered (lines 266 to
\* 269) when the flag was set, then the lines of connect (141 and 142), of
\* disconnect (169 to 175) or of _live_receivers (289 to 300).  The cache,
\* which a send reads without the lock, is cleared in a step of its own, the
\* last of the block of connect and of disconnect.
CLocked(t) ==
  /\ threads[t].pc = "locked"
  /\ \E c \in {Current(threads[t])} :
     \E swept \in {IF threads[t].sweeps
                    THEN [bus EXCEPT !.dead = FALSE, !.receivers = Filter(@, alive)]
                    ELSE [bus EXCEPT !.dead = FALSE]} :
       \E r \in {IF c.op = "send" THEN Resolved(swept, c.sender, alive)
                  ELSE [b |-> bus, found |-> <<>>]} :
       /\ bus' = IF c.op = "connect"
                 THEN [Connected(swept, LookupKey(c.receiver, c.sender, c.dispatch_uid),
                                 c.receiver, c.weak)
                       EXCEPT !.cache = bus.cache, !.dead = bus.dead]
                 ELSE IF c.op = "disconnect"
                      THEN [Disconnected(swept, IndexOf(swept.receivers,
                              LookupKey(c.receiver, c.sender, c.dispatch_uid), 1)).b
                            EXCEPT !.cache = bus.cache, !.dead = bus.dead]
                      ELSE [r.b EXCEPT !.dead = bus.dead]
       /\ threads' = [threads EXCEPT
                        ![t].pc = IF c.op = "send" THEN "release" ELSE "clear",
                        ![t].found = r.found,
                        ![t].sweeps = FALSE,
                        ![t].ret = IF c.op = "disconnect"
                                   THEN Disconnected(swept, IndexOf(swept.receivers,
                                          LookupKey(c.receiver, c.sender, c.dispatch_uid),
                                          1)).ret
                                   ELSE @]
  /\ UNCHANGED <<alive, lock>>
  /\ ThreadFrame

\* Line 143 of connect, line 176 of disconnect: the cache is cleared, the lock
\* still held
CClear(t) ==
  /\ threads[t].pc = "clear"
  /\ bus' = Cleared(bus)
  /\ threads' = [threads EXCEPT ![t].pc = "release"]
  /\ UNCHANGED <<alive, lock>>
  /\ ThreadFrame

\* The end of the block: the lock is released; connect and disconnect return,
\* to the receiver that made the call if one did, and _live_receivers goes on
CRelease(t) ==
  /\ threads[t].pc = "release"
  /\ lock' = Released(lock, t)
  /\ threads' = [threads EXCEPT
                   ![t].pc = IF Current(threads[t]).op = "send" THEN "deref"
                             ELSE IF threads[t].inner.op # "" THEN "invoke"
                             ELSE "idle",
                   ![t].inner = NoInvocation,
                   ![t].running = NoObject,
                   ![t].back = @ \/ threads[t].inner.op # ""]
  /\ UNCHANGED <<bus, alive>>
  /\ ThreadFrame

\* Lines 302 to 311 of _live_receivers: the weak references are dereferenced
CDeref(t) ==
  /\ threads[t].pc = "deref"
  /\ threads' = [threads EXCEPT ![t].pc = "invoke",
                                ![t].recs = NonWeak(threads[t].found, alive),
                                ![t].fixed = NonWeak(threads[t].found, alive),
                                ![t].invoked = <<>>,
                                ![t].gone = {},
                                ![t].found = <<>>]
  /\ UNCHANGED <<bus, alive, lock>>
  /\ ThreadFrame

\* send calls its next receiver, or returns when none is left; a receiver
\* that calls the signal goes up to the lock
CInvoke(t) ==
  /\ threads[t].pc = "invoke"
  /\ threads' =
       IF threads[t].recs = <<>>
       THEN [threads EXCEPT ![t].pc = "idle"]
       ELSE [threads EXCEPT
               ![t].recs = IF Behaviour[Head(@)] = "returns" THEN Rest(@, bus) ELSE <<>>,
               ![t].invoked = Append(@, Head(threads[t].recs)),
               ![t].gone = IF HasEntry(bus, Head(threads[t].recs))
                            THEN @ ELSE @ \cup {Head(threads[t].recs)},
               ![t].inner = CallsBack(Head(threads[t].recs)),
               ![t].running = IF CallsBack(Head(threads[t].recs)).op # ""
                              THEN Head(threads[t].recs) ELSE NoObject,
               ![t].stale = StaleEntries(bus, alive),
               ![t].pc = IF CallsBack(Head(threads[t].recs)).op # "" THEN "acquire"
                         ELSE "invoke"]
  /\ UNCHANGED <<bus, alive, lock>>
  /\ ThreadFrame

\* A thread has receiver in its hands: it is connecting or disconnecting it,
\* its send has it in a list, not as a weak reference, and has not called it
\* yet, or it is calling it
HeldByThread(th, receiver) ==
  \/ th.pc # "idle" /\ th.call.receiver = receiver
  \/ \E i \in 1..Len(th.found) : th.found[i].receiver = receiver /\ ~th.found[i].weak
  \/ \E i \in 1..Len(th.recs) : th.recs[i] = receiver
  \/ th.running = receiver
  \/ th.inner.receiver = receiver

\* The last reference to a receiver is dropped, at any moment: the weak
\* references to it go dead
CReleaseReceiver(receiver) ==
  /\ receiver \in alive
  /\ receiver \in bus.finalizers
  /\ ~HeldBy(bus, receiver)
  /\ \A t \in Threads : ~HeldByThread(threads[t], receiver)
  /\ alive' = alive \ {receiver}
  /\ UNCHANGED <<bus, lock, threads>>
  /\ ThreadFrame

\* The finalizer that connect registered for a receiver that is gone runs,
\* whoever holds the lock
CFinalize(receiver) ==
  /\ receiver \notin alive
  /\ receiver \in bus.finalizers
  /\ bus' = remove_receiver([bus EXCEPT !.finalizers = @ \ {receiver}])
  /\ UNCHANGED <<alive, lock, threads>>
  /\ ThreadFrame

\* The steps of a thread inside a call
CStep(t) ==
  \/ CLookup(t)
  \/ CAcquire(t)
  \/ CSweep(t)
  \/ CLocked(t)
  \/ CClear(t)
  \/ CRelease(t)
  \/ CDeref(t)
  \/ CInvoke(t)

CNext ==
  \/ \E t \in Threads : \E c \in ThreadCalls : CBegin(t, c)
  \/ \E t \in Threads : \E c \in ThreadCalls : CBeginSend(t, c)
  \/ \E t \in Threads : CStep(t)
  \/ \E receiver \in Receivers : CReleaseReceiver(receiver)
  \/ \E receiver \in Receivers : CFinalize(receiver)

SpecConcurrent == CInit /\ [][CNext]_vars

(***************************************************************************)
(* Specification SpecPrune: the same threads and steps, the calls being    *)
(* two connects under one dispatch_uid and one without, each of a receiver *)
(* held weakly, a disconnect and a send.                                   *)
(***************************************************************************)
PruneCalls == {
  Invocation("connect", Connection("r1", "s1", TRUE, NoObject)),
  Invocation("connect", Connection("r2", "s1", TRUE, "uid")),
  Invocation("connect", Connection("r4", "s1", TRUE, "uid")),
  Invocation("disconnect", Connection(NoObject, "s1", FALSE, "uid")),
  Invocation("send", Connection(NoObject, "s1", FALSE, NoObject))
}

PNext ==
  \/ \E t \in Threads : \E c \in PruneCalls : CBegin(t, c)
  \/ \E t \in Threads : \E c \in PruneCalls : CBeginSend(t, c)
  \/ \E t \in Threads : CStep(t)
  \/ \E receiver \in Receivers : CReleaseReceiver(receiver)
  \/ \E receiver \in Receivers : CFinalize(receiver)

SpecPrune == CInit /\ [][PNext]_vars

(***************************************************************************)
(* Specification SpecRace: configure on one wrapper from two threads, which *)
(* holds no lock.  A thread calls settings.configure(input) or reads an     *)
(* attribute of the wrapper, which goes through _setup when the wrapper is  *)
(* not configured; the statements of configure are steps, and the steps of  *)
(* the threads interleave.                                                  *)
(***************************************************************************)
RaceInputs == {EmptyDict, "compute" :> Dict("arch" :> Str("virtualenv")),
               "more_json" :> Str("/cfg/missing.json")}

\* A thread in configure: where it is (pc), whether it came through _setup
\* (lazy), the input, the error it raised and the notifications it sent
IdleCaller == [pc |-> "idle", lazy |-> FALSE, input |-> EmptyDict, err |-> NoError,
               notes |-> <<>>]

\* An install that leaves a container another thread installed in its place
InstalledIfNone(w, input) == IF w.isNone THEN Settings(update(EmptyDict, input)) ELSE w

\* Line 497 of configure: self._wrapped = Settings(*args, **kwargs)
Installed(w, input) == Settings(update(EmptyDict, input))

RaceFrame ==
  UNCHANGED <<global_templates, env, receivers, last, evaluated, reinvoked, entered,
              tplVars, bus, alive, busLast, lock>>

XInit ==
  /\ wrapped = NoneRef
  /\ global_templates = BuiltinTemplates
  /\ env \in {HomeEnv, HomeEnv @@ (ENVIRONMENT_VARIABLE :> "/cfg/config.json")}
  /\ receivers \in {[NoReceivers EXCEPT !.post_settings_configured = rs] :
                      rs \in {<<"ok">>, <<"raises">>}}
  /\ last = NoCall
  /\ evaluated = {}
  /\ reinvoked = {}
  /\ entered = <<>>
  /\ tIn = EmptyDict
  /\ tOut = <<>>
  /\ tLast = [kind |-> "none", t |-> Template(EmptyDict, EmptyDict)]
  /\ added = NoAdd
  /\ bus = Signal(FALSE)
  /\ alive = Receivers
  /\ busLast = NoBusCall
  /\ lock = "free"
  /\ threads = [t \in Threads |-> IdleCaller]

\* settings.configure(input) is called
XConfigure(t, input) ==
  /\ threads[t].pc = "idle"
  /\ threads' = [threads EXCEPT ![t].pc = "check", ![t].input = input]
  /\ UNCHANGED wrapped
  /\ RaceFrame

\* An attribute of the wrapper is read: lines 349 and 350 of
\* LazyObject.__getattr__ test self._wrapped and go to _setup, or to the read
XGetattr(t) ==
  /\ threads[t].pc = "idle"
  /\ threads' = [threads EXCEPT ![t].pc = IF wrapped.isNone THEN "setup" ELSE "done",
                                ![t].lazy = TRUE]
  /\ UNCHANGED wrapped
  /\ RaceFrame

\* Lines 442 to 451 of _setup: the file the environment names is loaded and
\* configure called with it
XSetup(t) ==
  /\ threads[t].pc = "setup"
  /\ threads' =
       IF ENVIRONMENT_VARIABLE \notin DOMAIN env \/ env[ENVIRONMENT_VARIABLE] = ""
       THEN [threads EXCEPT ![t].pc = "raised", ![t].err = NotConfigured]
       ELSE IF env[ENVIRONMENT_VARIABLE] \notin DOMAIN Files
            THEN [threads EXCEPT ![t].pc = "raised",
                                 ![t].err = Error("FileNotFoundError",
                                                  env[ENVIRONMENT_VARIABLE])]
            ELSE [threads EXCEPT ![t].pc = "check",
                                 ![t].input = Files[env[ENVIRONMENT_VARIABLE]]]
  /\ UNCHANGED wrapped
  /\ RaceFrame

\* Lines 494 and 495 of configure: the test of self._wrapped
XCheck(t) ==
  /\ threads[t].pc = "check"
  /\ threads' = IF wrapped.isNone
                THEN [threads EXCEPT ![t].pc = "install"]
                ELSE [threads EXCEPT ![t].pc = "raised", ![t].err = AlreadyConfigured]
  /\ UNCHANGED wrapped
  /\ RaceFrame

\* Line 497 of configure
XInstall(t) ==
  /\ threads[t].pc = "install"
  /\ wrapped' = Installed(wrapped, threads[t].input)
  /\ threads' = [threads EXCEPT ![t].pc = "templates"]
  /\ RaceFrame

\* Lines 499 to 506 of configure: the template loop, on the container that
\* self._wrapped is by now
XTemplates(t) ==
  /\ threads[t].pc = "templates"
  /\ wrapped' = [wrapped EXCEPT !.d = ApplyTemplates(global_templates, @)]
  /\ threads' = [threads EXCEPT ![t].pc = "includes"]
  /\ RaceFrame

\* Lines 516 to 521 of configure: the includes are patched in
XIncludes(t) ==
  /\ threads[t].pc = "includes"
  /\ \E inc \in {PatchIncludes(wrapped.d, <<>>)} :
       /\ wrapped' = [wrapped EXCEPT !.d = inc.d]
       /\ threads' = IF inc.out = "raise"
                     THEN [threads EXCEPT ![t].pc = "raised", ![t].err = inc.err]
                     ELSE [threads EXCEPT ![t].pc = "send"]
  /\ RaceFrame

\* Line 528 of configure: post_settings_configured.send(sender=self); then
\* configure returns, and _setup stores the name of the file (line 452)
XSend(t) ==
  /\ threads[t].pc = "send"
  /\ \E sent \in {Send("post_settings_configured", "settings", wrapped.d)} :
       threads' = IF sent.raised
                  THEN [threads EXCEPT ![t].pc = "raised", ![t].err = ReceiverError,
                                       ![t].notes = Append(@, sent.note)]
                  ELSE [threads EXCEPT ![t].pc = IF threads[t].lazy THEN "config_file"
                                                 ELSE "done",
                                       ![t].notes = Append(@, sent.note)]
  /\ UNCHANGED wrapped
  /\ RaceFrame

\* Line 452 of _setup: self._wrapped.config_file = ...
XConfigFile(t) ==
  /\ threads[t].pc = "config_file"
  /\ wrapped' = [wrapped EXCEPT
                   !.d = update(@, "config_file" :> Str(env[ENVIRONMENT_VARIABLE]))]
  /\ threads' = [threads EXCEPT ![t].pc = "done"]
  /\ RaceFrame

XNext ==
  \/ \E t \in Threads : \E input \in RaceInputs : XConfigure(t, input)
  \/ \E t \in Threads : XGetattr(t)
  \/ \E t \in Threads : XSetup(t)
  \/ \E t \in Threads : XCheck(t)
  \/ \E t \in Threads : XInstall(t)
  \/ \E t \in Threads : XTemplates(t)
  \/ \E t \in Threads : XIncludes(t)
  \/ \E t \in Threads : XSend(t)
  \/ \E t \in Threads : XConfigFile(t)

SpecRace == XInit /\ [][XNext]_vars

(***************************************************************************)
(* Properties of the templates                                             *)
(***************************************************************************)
\* The leaves of a container: every value that is no container, with its path.
RECURSIVE Leaves(_)
Leaves(c) ==
  UNION {IF c[key].k = "dict"
         THEN {[path |-> <<key>> \o l.path, val |-> l.val] : l \in Leaves(c[key].d)}
         ELSE {[path |-> <<key>>, val |-> c[key]]} : key \in DOMAIN c}

\* c holds a value (a leaf or a container) at path
RECURSIVE HasPath(_, _)
HasPath(c, path) ==
  /\ path # <<>>
  /\ Head(path) \in DOMAIN c
  /\ \/ Len(path) = 1
     \/ /\ c[Head(path)].k = "dict"
        /\ HasPath(c[Head(path)].d, Tail(path))

\* c holds a leaf at a proper prefix of path
LeafAbove(c, path) ==
  \E n \in 1..(Len(path) - 1) : \E l \in Leaves(c) : l.path = SubSeq(path, 1, n)

AppliedOne == tLast.kind = "one" /\ Len(tOut) = 1

\* C9 as stated: applying a template to a container C whose pattern is deeply
\* contained in C leaves every leaf of the defaults present in C and every leaf
\* C had with its value; a template whose pattern is not contained leaves C
\* unchanged.
C9_EveryDefaultPresent ==
  AppliedOne =>
    IF nested_in_dict(tLast.t.pattern, tIn)
    THEN /\ \A l \in Leaves(tLast.t.defaults) : HasPath(tOut[1], l.path)
         /\ Leaves(tIn) \subseteq Leaves(tOut[1])
    ELSE tOut[1] = tIn

\* C9 amended: applying a template to a container C whose pattern is deeply
\* contained in C leaves every leaf of the defaults present in C, except below
\* a key where C itself held a leaf, and leaves every leaf C had with its
\* value; a template whose pattern is not contained leaves C unchanged.
C9_DefaultsFillGaps ==
  AppliedOne =>
    IF nested_in_dict(tLast.t.pattern, tIn)
    THEN /\ \A l \in Leaves(tLast.t.defaults) :
              LeafAbove(tIn, l.path) \/ HasPath(tOut[1], l.path)
         /\ Leaves(tIn) \subseteq Leaves(tOut[1])
    ELSE tOut[1] = tIn

\* A template with a non-empty, nested pattern matched, one of its defaults
\* met an explicit setting of another value at depth two and another of its
\* defaults was injected.
C9_Witness ==
  /\ AppliedOne
  /\ tLast.t.pattern # EmptyDict
  /\ nested_in_dict(tLast.t.pattern, tIn)
  /\ \E l \in Leaves(tLast.t.defaults) : \E m \in Leaves(tIn) :
       l.path = m.path /\ Len(l.path) = 2 /\ l.val # m.val
  /\ \E l \in Leaves(tLast.t.defaults) : ~HasPath(tIn, l.path) /\ l \in Leaves(tOut[1])

\* The container a template of the registry is tested against in the first
\* application of the registry.
AtTurn(i) == ApplyTemplates(SubSeq(global_templates, 1, i - 1), tIn)

\* No pattern of the registry is satisfied after the first application
\* without having been satisfied when its template was tested.
NoLateMatch ==
  \A i \in 1..Len(global_templates) :
    nested_in_dict(global_templates[i].pattern, tOut[1])
      => nested_in_dict(global_templates[i].pattern, AtTurn(i))

AppliedTwice == tLast.kind = "all" /\ Len(tOut) >= 2

\* C10 as stated: applying the whole ordered registry a second time to a
\* container that has been templated yields the container of the first
\* application.
C10_Idempotent == AppliedTwice => tOut[2] = tOut[1]

\* C10 amended: applying the whole ordered registry a second time yields the
\* container of the first application, provided no template's pattern is
\* satisfied only by defaults that a template later in the registry injected
\* (which is so for the built-in registry).
C10_IdempotentNoLateMatch == (AppliedTwice /\ NoLateMatch) => tOut[2] = tOut[1]

\* The registry holds application templates, the first application injected
\* defaults that a later template's pattern needed, and it was applied twice.
C10_Witness ==
  /\ AppliedTwice
  /\ NoLateMatch
  /\ Len(global_templates) > Len(BuiltinTemplates)
  /\ tOut[1] # tIn
  /\ \E i \in 2..Len(global_templates) :
       /\ nested_in_dict(global_templates[i].pattern, AtTurn(i))
       /\ ~nested_in_dict(global_templates[i].pattern, tIn)

\* The container after the first i templates of the registry had their turn
\* in the first application, each one applied to what the one before left
RECURSIVE Turn(_)
Turn(i) ==
  IF i = 0 THEN tIn
  ELSE LET before == Turn(i - 1)
           t == global_templates[i]
       IN IF nested_in_dict(t.pattern, before)
          THEN update(before, nested_update(nested_update(EmptyDict, t.defaults), before))
          ELSE before

AppliedAll == tLast.kind = "all" /\ Len(tOut) >= 1

\* C25: the templates of the registry are tested and applied one at a time,
\* in the order of the registry, each against the container as the templates
\* before it left it: the result is that of the turns taken in order; a
\* template whose pattern is in the container at its turn, be it only through
\* defaults an earlier template injected, has its defaults in the result; and
\* every leaf the container has after a turn, injected ones included, is in
\* the result with the same value, whatever the later templates default to.
C25_TemplatesInTurn ==
  AppliedAll =>
    /\ tOut[1] = Turn(Len(global_templates))
    /\ \A i \in 1..Len(global_templates) :
         /\ nested_in_dict(global_templates[i].pattern, Turn(i - 1))
              => \A l \in Leaves(global_templates[i].defaults) :
                   LeafAbove(Turn(i - 1), l.path) \/ HasPath(tOut[1], l.path)
         /\ Leaves(Turn(i)) \subseteq Leaves(tOut[1])

\* an application template injected compute.arch on a container that had
\* none; the built-in default for compute.arch, later in the registry, did not
\* replace it; and the built-in template for that arch, whose pattern the
\* input did not satisfy, injected its own default
C25_Witness ==
  /\ AppliedAll
  /\ ~HasPath(tIn, <<"compute", "arch">>)
  /\ \E i \in 1..Len(global_templates) : \E j \in (i + 1)..Len(global_templates) :
     \E k \in (i + 1)..Len(global_templates) :
       /\ [path |-> <<"compute", "arch">>, val |-> Str("virtualenv")]
            \in Leaves(global_templates[i].defaults)
       /\ [path |-> <<"compute", "arch">>, val |-> Str("terra.compute.dummy")]
            \in Leaves(global_templates[j].defaults)
       /\ nested_in_dict(global_templates[j].pattern, Turn(j - 1))
       /\ global_templates[k].pattern = "compute" :> Dict("arch" :> Str("virtualenv"))
       /\ ~nested_in_dict(global_templates[k].pattern, tIn)
  /\ [path |-> <<"compute", "arch">>, val |-> Str("virtualenv")] \in Leaves(tOut[1])
  /\ HasPath(tOut[1], <<"compute", "virtualenv_dir">>)

(***************************************************************************)
(* Properties of the scopes (SpecScope)                                    *)
(***************************************************************************)
ContextNote(seen) ==
  [signal |-> "post_settings_context", sender |-> "settings", seen |-> seen]

NoteOf(note) == [signal |-> note.signal, sender |-> note.sender, seen |-> note.seen]

\* C1: scoped rollback.  Whatever was set, added or deleted since the matching
\* __enter__, at any depth, an __exit__ that pops a backup leaves the container
\* equal to what it was at that __enter__, whether the body returned or raised,
\* and sends post_settings_context exactly once, with the restored container
\* already in place.
C1_ScopedRollback ==
  [][(last'.op = "__exit__" /\ Len(wrapped'.backup) < Len(wrapped.backup))
       => /\ wrapped'.d = entered[Len(entered)]
          /\ Len(last'.notes) = 1
          /\ NoteOf(last'.notes[1]) = ContextNote(entered[Len(entered)])]_vars

\* An inner scope that added a key, deleted one and set one below the root has
\* been left by a body that raised, and all three are as before.
C1_Witness ==
  /\ last.op = "__exit__" /\ last.out = "ok" /\ last.exc
  /\ Len(wrapped.backup) = 1
  /\ "extra" \in DOMAIN last.pre.d /\ "extra" \notin DOMAIN wrapped.d
  /\ "resume" \notin DOMAIN last.pre.d /\ "resume" \in DOMAIN wrapped.d
  /\ last.pre.d["compute"] # wrapped.d["compute"]
  /\ last.notes[1].invoked = 1

\* The depth of the scope stack of the wrapped container: the backups it holds
Depth(w) == IF w.isNone \/ ~w.has_backup THEN 0 ELSE Len(w.backup)

\* C20: the scope stack is as deep as there are __enter__s that no __exit__
\* has matched yet, and holds what each of them captured, the most recent on
\* top; an __exit__ in a scope pops the top and leaves the container equal to
\* it, so that the __exit__ of the outermost scope leaves the container as
\* it was at the outermost __enter__; an __exit__ outside any scope raises.
C20_StackDepthIsNesting ==
  /\ Depth(wrapped) = Len(entered)
  /\ \A i \in 1..Len(entered) : wrapped.backup[i] = entered[i]
  /\ (last.op = "__exit__" /\ Depth(last.pre) > 0) =>
       /\ wrapped.d = last.pre.backup[Depth(last.pre)]
       /\ Depth(wrapped) = Depth(last.pre) - 1
  /\ (last.op = "__exit__" /\ Depth(last.pre) = 0) => last.out = "raise"

\* the inner of two nested scopes has been left: the container is as it was
\* at the inner __enter__, which is neither what the outer __enter__ captured
\* nor what the body of the inner scope left, and the outer scope is still
\* open
C20_Witness ==
  /\ last.op = "__exit__"
  /\ Depth(last.pre) = 2
  /\ Depth(wrapped) = 1
  /\ wrapped.d = last.pre.backup[2]
  /\ wrapped.d # last.pre.backup[1]
  /\ wrapped.d # last.pre.d
  /\ wrapped.backup[1] = entered[1]

\* C21: an __exit__ with no __enter__ to match, on a wrapper with nothing
\* wrapped, on a container that was never entered or on one whose scopes
\* are all left, ends with an error and sends no post_settings_context; it
\* never returns.
C21_UnmatchedExitRaises ==
  (last.op = "__exit__" /\ Depth(last.pre) = 0) =>
    /\ last.out = "raise"
    /\ last.err \in {AttributeError("__exit__"), AttributeError("_backup"),
                     Error("IndexError", "pop from empty list")}
    /\ last.notes = <<>>

\* a second __exit__ after the only scope was left, with a receiver connected
\* to post_settings_context
C21_Witness ==
  /\ last.op = "__exit__"
  /\ last.pre.has_backup /\ last.pre.backup = <<>>
  /\ last.err = Error("IndexError", "pop from empty list")
  /\ receivers.post_settings_context # <<>>
  /\ last.notes = <<>>

C32_FailedExitClears ==
  (last.op = "__exit__" /\ ~last.pre.isNone /\ Depth(last.pre) = 0) =>
    /\ last.out = "raise"
    /\ last.err = IF last.pre.has_backup THEN Error("IndexError", "pop from empty list")
                  ELSE AttributeError("_backup")
    /\ ~wrapped.isNone
    /\ wrapped.d = EmptyDict
    /\ wrapped.has_backup = last.pre.has_backup /\ wrapped.backup = last.pre.backup
    /\ last.pre.d # EmptyDict => wrapped.d # last.pre.d

\* an __exit__ on a configured container that was never entered has raised,
\* and the settings it held are gone
C32_Witness ==
  /\ last.op = "__exit__" /\ last.out = "raise"
  /\ ~last.pre.isNone /\ ~last.pre.has_backup
  /\ last.err = AttributeError("_backup")
  /\ "resume" \in DOMAIN last.pre.d /\ "processing_dir" \in DOMAIN last.pre.d
  /\ DOMAIN wrapped.d = {}

(***************************************************************************)
(* Properties of configure and of the implicit setup (Spec)                *)
(***************************************************************************)
\* configure ran in the last call, and the call ended in it with an error
ConfigureRan == \E i \in 1..Len(last.inner) : last.inner[i] = "configure"
ConfigureFailed ==
  ConfigureRan /\ last.out = "raise" /\ last.inner[Len(last.inner)] = "configure"

\* every include key of d, at any depth, holds the container of its file
RECURSIVE IncludesResolved(_)
IncludesResolved(d) ==
  \A key \in DOMAIN d :
    /\ IsIncludeKey(key) => d[key].k = "dict"
    /\ d[key].k = "dict" => IncludesResolved(d[key].d)

\* post_settings_configured was sent once, by the wrapper, with the templates
\* applied and the includes resolved
CommittedOnce ==
  /\ Len(last.notes) = 1
  /\ last.notes[1].signal = "post_settings_configured"
  /\ last.notes[1].sender = "settings"
  /\ IncludesResolved(last.notes[1].seen)
  /\ last.op = "configure" => last.notes[1].seen = wrapped.d

\* C2 as stated: a configure that succeeds sends post_settings_configured
\* exactly once, with the wrapper as sender, after the templates and the
\* includes; a configure that failed has sent nothing.
C2_CommittedOnlyOnSuccess ==
  /\ (ConfigureRan /\ ~ConfigureFailed) => CommittedOnce
  /\ ConfigureFailed => last.notes = <<>>

\* C2, amended: a configure that succeeds sends post_settings_configured
\* exactly once, with the wrapper as sender, after the templates and the
\* includes; a configure that failed has sent nothing, unless it failed
\* because a receiver of that very notification raised.
C2_CommittedAfterResolution ==
  /\ (ConfigureRan /\ ~ConfigureFailed) => CommittedOnce
  /\ ConfigureFailed => \/ last.notes = <<>>
                        \/ last.err = ReceiverError /\ CommittedOnce

\* A configure has returned: an include a template put in and one of the input
\* are both resolved, and the receiver has been called.
C2_Witness ==
  /\ last.op = "configure" /\ last.out = "ok"
  /\ last.notes[1].invoked = 1
  /\ "extra_json" \in DOMAIN wrapped.d /\ wrapped.d["extra_json"].k = "dict"
  /\ "more_json" \in DOMAIN wrapped.d /\ wrapped.d["more_json"].k = "dict"

C4_FailedConfigureInstallsNothing ==
  (last.op = "configure" /\ last.pre.isNone /\ last.out = "raise") => wrapped.isNone

\* C27: every call of a settings_property, in a read by attribute at any
\* depth and in the resolution of an include key by configure, is given the
\* singleton as its argument.
C27_EvaluatedWithTheSingleton ==
  \A i \in 1..Len(last.calls) : last.calls[i].self = "settings"

EnvUnset == ENVIRONMENT_VARIABLE \notin DOMAIN env \/ env[ENVIRONMENT_VARIABLE] = ""

\* C5: a get, set, delete, len, contains or iterate on an unconfigured wrapper
\* goes through _setup.  With the environment variable unset it raises the
\* error that names the variable, the wrapper stays unconfigured and nothing is
\* sent; otherwise configure has run exactly once before the access is served.
C5_ImplicitSetup ==
  (last.op \in MagicMethods /\ last.pre.isNone) =>
    /\ last.inner[1] = "_setup"
    /\ IF EnvUnset
       THEN /\ last.out = "raise" /\ last.err = NotConfigured
            /\ last.err.arg = ENVIRONMENT_VARIABLE
            /\ wrapped.isNone
            /\ last.notes = <<>>
       ELSE last.inner[Len(last.inner)] = last.op
              => last.inner = <<"_setup", "configure", last.op>>

\* An access on an unconfigured wrapper has been served after the setup.
C5_Witness ==
  /\ last.op = "__getitem__" /\ last.pre.isNone /\ last.out = "ok"
  /\ last.inner = <<"_setup", "configure", "__getitem__">>
  /\ "config_file" \in DOMAIN wrapped.d

(***************************************************************************)
(* Properties of the setup with receivers that read (SpecSetup)            *)
(***************************************************************************)
\* the last call went through _setup
ViaSetup == last.inner # <<>> /\ last.inner[1] = "_setup"

\* the last call sent post_settings_configured, and a receiver that reads
\* settings.processing_dir was called and returned
ReceiverRead ==
  /\ last.notes # <<>>
  /\ \E i \in 1..last.notes[1].invoked :
       /\ receivers.post_settings_configured[i] = "reads"
       /\ i < last.notes[1].invoked \/ last.out = "ok"

\* the calls of the settings_property processing_dir in the last call
DirCalls == SelectSeq(last.calls, LAMBDA call : call.at = <<"processing_dir">>)

\* C31: in a setup the receivers of post_settings_configured find a
\* container without config_file; when one of them reads processing_dir and
\* the setup goes through, the container holds config_file and
\* processing_dir as the receiver cached it, the working directory and not
\* the directory of the file, and processing_dir was called that once; and a
\* read of processing_dir from a container that holds both returns the
\* cached directory without a call.
C31_CommittedBeforeConfigFile ==
  /\ ViaSetup =>
       \A i \in 1..Len(last.notes) : "config_file" \notin DOMAIN last.notes[i].seen
  /\ (ViaSetup /\ ReceiverRead /\ last.out = "ok") =>
       /\ "config_file" \in DOMAIN wrapped.d
       /\ wrapped.d["config_file"].v = env[ENVIRONMENT_VARIABLE]
       /\ wrapped.d["processing_dir"] = ExpandedString(Cwd)
       /\ Cwd # dirname(wrapped.d["config_file"].v)
       /\ Len(DirCalls) = 1
       /\ last.at = <<"processing_dir">> => last.val = ExpandedString(Cwd)
  /\ (/\ last.op = "__getattr__" /\ last.at = <<"processing_dir">>
      /\ ~last.pre.isNone
      /\ "config_file" \in DOMAIN last.pre.d
      /\ last.pre.d["processing_dir"].k = "exp") =>
       /\ last.calls = <<>>
       /\ last.val = last.pre.d["processing_dir"]
       /\ wrapped.d["processing_dir"] = last.pre.d["processing_dir"]

\* A receiver read processing_dir in a setup, and a later read of
\* processing_dir, config_file being recorded, has returned the working
\* directory.
C31_Witness ==
  /\ last.op = "__getattr__" /\ last.at = <<"processing_dir">> /\ last.out = "ok"
  /\ ~last.pre.isNone
  /\ "config_file" \in DOMAIN last.pre.d
  /\ last.pre.d["config_file"] = Str("/cfg/config.json")
  /\ "TERRA_UNITTEST" \notin DOMAIN env
  /\ last.calls = <<>>
  /\ last.val = ExpandedString(Cwd)
  /\ receivers.post_settings_configured = <<"ok", "reads">>

(***************************************************************************)
(* Properties of the reads (SpecRead)                                      *)
(***************************************************************************)
\* the last call was a read by attribute of a key that holds a
\* settings_property, and that call of it raised
FailedEvaluation ==
  /\ last.op = "__getattr__" /\ last.out = "raise"
  /\ last.inner[Len(last.inner)] = "__getattr__"
  /\ AttrCalls(last) # <<>> /\ ~AttrCalls(last)[1].ok

\* C6: a settings_property is not called again once a read of its key has
\* returned: that read put its result in the place of the function, and the
\* reads after it return the stored result.
C6_InvokedAtMostOnce ==
  /\ reinvoked = {}
  /\ (last.op = "__getattr__" /\ last.out = "ok")
       => /\ GetAt(wrapped.d, SubSeq(last.at, 1, Len(last.at) - 1))
               [last.at[Len(last.at)]] = last.val
          /\ last.val.k # "fn"

\* A key whose settings_property has been called is read again, and no call
\* is made.
C6_Witness ==
  /\ last.op = "__getattr__" /\ last.out = "ok"
  /\ last.at \in evaluated
  /\ last.calls = <<>>

\* C7 as stated: a read whose settings_property raises leaves the container
\* unchanged.
C7_FailedEvaluationChangesNothing ==
  (FailedEvaluation /\ ~last.pre.isNone) => wrapped = last.pre

\* C7, amended: a read whose settings_property raises raises, and the key
\* still holds the function, so that the next read calls it again; apart from
\* that the container changes only where the failed evaluation read another
\* key, whose function or unexpanded string has its result stored.
C7_FailedEvaluationNotCached ==
  (FailedEvaluation /\ ~last.pre.isNone) =>
    /\ GetAt(wrapped.d, SubSeq(last.at, 1, Len(last.at) - 1))[last.at[Len(last.at)]]
         = GetAt(last.pre.d, SubSeq(last.at, 1, Len(last.at) - 1))[last.at[Len(last.at)]]
    /\ DOMAIN wrapped.d = DOMAIN last.pre.d
    /\ \A key \in DOMAIN wrapped.d :
         \/ wrapped.d[key] = last.pre.d[key]
         \/ /\ <<key>> # last.at
            /\ last.pre.d[key].k \in {"fn", "str"}
            /\ wrapped.d[key].k \notin {"fn", "dict"}

\* A settings_property has raised after it read another one, whose result is
\* now stored.
C7_Witness ==
  /\ FailedEvaluation /\ ~last.pre.isNone
  /\ last.at = <<"checked_dir">>
  /\ wrapped.d["checked_dir"] = Func("app_checked_dir")
  /\ last.pre.d["processing_dir"].k = "fn"
  /\ wrapped.d["processing_dir"].k = "exp"

\* C8: a read of a key that is not there raises the AttributeError of the key,
\* and the error of a settings_property that raised is never that one: it
\* reaches the reader as the function raised it.
C8_EvaluationErrorUnmodified ==
  (/\ last.op = "__getattr__" /\ last.out = "raise"
   /\ last.inner[Len(last.inner)] = "__getattr__") =>
    IF FailedEvaluation
    THEN last.err # AttributeError(last.at[Len(last.at)])
    ELSE last.err = AttributeError(last.at[Len(last.at)])

\* What the last read found at its key, in the container as it was before
ReadBefore == GetAt(last.pre.d, SubSeq(last.at, 1, Len(last.at) - 1))[last.at[Len(last.at)]]

\* What is at the key of the last read now
ReadNow == GetAt(wrapped.d, SubSeq(last.at, 1, Len(last.at) - 1))[last.at[Len(last.at)]]

\* The last call was an attribute read, on a configured wrapper, of a key
\* that was there
ReadOfKey ==
  /\ last.op = "__getattr__"
  /\ last.inner[Len(last.inner)] = "__getattr__"
  /\ ~last.pre.isNone
  /\ IsContainerAt(last.pre.d, SubSeq(last.at, 1, Len(last.at) - 1))
  /\ last.at[Len(last.at)] \in DOMAIN GetAt(last.pre.d, SubSeq(last.at, 1, Len(last.at) - 1))

\* The text of a str after one expansion: the variables of the environment,
\* and the home directory when the name of the key ends as a path does
ExpandedOnce(name, text) ==
  IF \E suffix \in {"_file", "_files", "_dir", "_dirs", "_path", "_paths"} :
       EndsWith(name, suffix)
  THEN expanduser(env, expandvars(env, text))
  ELSE expandvars(env, text)

\* C22: an attribute read of a key that holds a str returns the text expanded
\* once, as an ExpandedString, and stores it at the key; a read of a key that
\* holds an ExpandedString returns it as it is and changes nothing, so that
\* over any sequence of reads the text is expanded once; a string that a
\* settings_property returned is stored as an ExpandedString as well.
C22_ExpandedOnce ==
  ReadOfKey =>
    /\ ReadBefore.k = "str" =>
         /\ last.out = "ok"
         /\ last.val = ExpandedString(ExpandedOnce(last.at[Len(last.at)], ReadBefore.v))
         /\ ReadNow = last.val
    /\ ReadBefore.k = "exp" =>
         /\ last.out = "ok"
         /\ last.val = ReadBefore
         /\ wrapped.d = last.pre.d
    /\ (ReadBefore.k = "fn" /\ last.out = "ok") =>
         /\ last.val.k # "str"
         /\ ReadNow = last.val

\* a second read of app_dir, whose text still holds a ~ that is not at its
\* start and a $HOME that came out of $APP: both stay
C22_Witness ==
  /\ ReadOfKey
  /\ last.at = <<"app_dir">>
  /\ ReadBefore = ExpandedString("/home/user/$HOME/app")
  /\ last.val = ReadBefore
  /\ wrapped.d["app_name"] = ExpandedString("~/$HOME/app")

\* The value at the path at of the container d
ValueAt(d, at) == GetAt(d, SubSeq(at, 1, Len(at) - 1))[at[Len(at)]]

\* C24: an attribute read of a key that holds a settings_property whose
\* function reads other keys that hold one ends, and when it returns, it
\* returns a value; every settings_property it reached was a function before
\* the read, was called once, with success, and has its result in its place
\* afterwards, also when it was reached along two paths; and that result is
\* the one a read of its own key would have given, whichever key was read
\* first.
C24_ReentrantEvaluation ==
  (ReadOfKey /\ ReadBefore.k = "fn" /\ last.out = "ok") =>
    /\ last.val.k # "fn"
    /\ last.calls # <<>> /\ last.calls[1].at = last.at
    /\ \A i \in 1..Len(last.calls) :
         /\ last.calls[i].ok
         /\ ValueAt(last.pre.d, last.calls[i].at).k = "fn"
         /\ ValueAt(wrapped.d, last.calls[i].at).k # "fn"
         /\ \A j \in 1..Len(last.calls) : j # i => last.calls[j].at # last.calls[i].at
         /\ \E own \in {Getattr(last.pre.d, <<>>, last.calls[i].at[1])} :
              own.out = "ok" /\ own.val = ValueAt(wrapped.d, last.calls[i].at)

\* report is read first: its function reads status_file, which reads
\* processing_dir, and then processing_dir, which is evaluated by then; the
\* three were called once each
C24_Witness ==
  /\ ReadOfKey /\ last.out = "ok"
  /\ last.at = <<"report">>
  /\ Len(last.calls) = 3
  /\ {last.calls[i].at : i \in 1..3} = {<<"report">>, <<"status_file">>, <<"processing_dir">>}
  /\ ValueAt(last.pre.d, <<"summary">>).k = "fn"
  /\ last.val = ExpandedString("/work:/work/status.json")

(***************************************************************************)
(* Properties of add_templates                                             *)
(***************************************************************************)
\* C11: after add_templates(new), on any registry, the empty one included,
\* the registry is new, in the order given, followed by the templates that
\* were there before, in their order.
C11_NewThenOld ==
  added.new # <<>> => global_templates = added.new \o added.before

(***************************************************************************)
(* Properties of the Signal                                                *)
(***************************************************************************)
\* The entries of list that are not dead: those the signal holds itself and
\* those whose weak reference still has its referent
RECURSIVE LiveEntries(_, _)
LiveEntries(list, live) ==
  IF list = <<>> THEN <<>>
  ELSE (IF Head(list).weak /\ Head(list).receiver \notin live THEN <<>> ELSE <<Head(list)>>)
       \o LiveEntries(Tail(list), live)

\* The entries the signal held before the last call that were not dead then
LiveBefore == LiveEntries(busLast.pre.receivers, busLast.live)

\* The key of the last call
LastKey == LookupKey(busLast.receiver, busLast.sender, busLast.dispatch_uid)

Places(list, key) == {i \in 1..Len(list) : list[i].key = key}

\* C12: no two entries of the receiver list have the same lookup key, and a
\* connect whose key a live entry has leaves the list as it is: every live
\* entry stays, with the receiver it stored, at its place (the dead entries
\* that were pending are swept by the same call).
C12_UniqueLookupKeys ==
  /\ \A i, j \in 1..Len(bus.receivers) :
       bus.receivers[i].key = bus.receivers[j].key => i = j
  /\ (busLast.op = "connect" /\ Places(LiveBefore, LastKey) # {})
       => bus.receivers = LiveBefore

\* a connect with the dispatch_uid of an entry that stores another receiver,
\* on a list of two entries
C12_Witness ==
  /\ busLast.op = "connect"
  /\ busLast.dispatch_uid # NoObject
  /\ Len(busLast.pre.receivers) = 2
  /\ busLast.pre.receivers = LiveBefore
  /\ \E i \in Places(LiveBefore, LastKey) : LiveBefore[i].receiver # busLast.receiver
  /\ bus.receivers = busLast.pre.receivers

\* The receivers of the entries of list whose sender is None or sender
RECURSIVE ReceiversFor(_, _)
ReceiversFor(list, sender) ==
  IF list = <<>> THEN <<>>
  ELSE (IF Head(list).key[2] \in {make_id(NoObject), make_id(sender)}
        THEN <<Head(list).receiver>> ELSE <<>>)
       \o ReceiversFor(Tail(list), sender)

\* The receivers that qualify for the last call: those of the live entries
\* for its sender, in the order of their connects
Qualifying == ReceiversFor(LiveBefore, busLast.sender)

TestMode == "TERRA_UNITTEST" \in DOMAIN env /\ env["TERRA_UNITTEST"] = "1"

Failing(list) == {i \in 1..Len(list) : Behaviour[list[i]] # "returns"}
Exiting(list) == {i \in 1..Len(list) : Behaviour[list[i]] = "exits"}

\* C13: outside the test mode, a send for a sender calls the receivers of the
\* live entries whose sender is None or that sender, and no other: one call
\* for each entry, in the order of the connects, as far as the send goes; a
\* send that no receiver fails returns one (receiver, response) pair for
\* each of them, in that order.
C13_SendCallsTheQualifying ==
  (busLast.op = "send" /\ ~TestMode) =>
    /\ Len(busLast.invoked) <= Len(Qualifying)
    /\ busLast.invoked = SubSeq(Qualifying, 1, Len(busLast.invoked))
    /\ Failing(Qualifying) = {} =>
         /\ busLast.out = "returned"
         /\ busLast.invoked = Qualifying
         /\ busLast.pairs = [i \in 1..Len(Qualifying) |->
                               [receiver |-> Qualifying[i],
                                result |-> Response(Qualifying[i])]]

\* a send that calls two receivers, one connected for every sender and one
\* for this sender, and leaves out a live one connected for another sender
C13_Witness ==
  /\ busLast.op = "send"
  /\ busLast.out = "returned"
  /\ Len(busLast.invoked) = 2
  /\ Len(LiveBefore) = 3
  /\ \E i, j \in 1..3 : /\ LiveBefore[i].key[2] = NONE_ID
                        /\ LiveBefore[j].key[2] = make_id(busLast.sender)
                        /\ busLast.sender # NoObject

\* C14: outside the test mode, a send with a qualifying receiver that fails
\* ends with the error of the first that fails; the qualifying receivers up
\* to that one were called, once each and in order, and none after it.
C14_SendFailsFast ==
  (busLast.op = "send" /\ ~TestMode /\ Failing(Qualifying) # {}) =>
    \E f \in Failing(Qualifying) :
      /\ \A g \in Failing(Qualifying) : f <= g
      /\ busLast.out = "raised"
      /\ busLast.err = ErrorOf(Qualifying[f])
      /\ busLast.invoked = SubSeq(Qualifying, 1, f)

\* a send whose second receiver of three raises
C14_Witness ==
  /\ busLast.op = "send"
  /\ busLast.out = "raised"
  /\ Len(Qualifying) = 3
  /\ Len(busLast.invoked) = 2

\* What send_robust records for a receiver that was called
ResultOf(receiver) ==
  IF Behaviour[receiver] = "returns" THEN Response(receiver) ELSE ErrorOf(receiver)

\* C15, as the spec states it: outside the test mode a send_robust never
\* ends with the error of a receiver; it calls every qualifying receiver
\* once and returns one pair for each, in order, the pair of a receiver that
\* failed holding its error.
C15_RobustNeverPropagates ==
  (busLast.op = "send_robust" /\ ~TestMode) =>
    /\ busLast.out = "returned"
    /\ busLast.invoked = Qualifying
    /\ busLast.pairs = [i \in 1..Len(Qualifying) |->
                          [receiver |-> Qualifying[i], result |-> ResultOf(Qualifying[i])]]

\* C15, as the code has it: that holds when the errors of the qualifying
\* receivers are Exceptions.  An error that is no Exception (SystemExit,
\* KeyboardInterrupt) ends the send_robust as it ends a send: the receivers
\* up to that one were called and none after it.
C15_RobustContainsExceptions ==
  (busLast.op = "send_robust" /\ ~TestMode) =>
    IF Exiting(Qualifying) = {}
    THEN /\ busLast.out = "returned"
         /\ busLast.invoked = Qualifying
         /\ busLast.pairs = [i \in 1..Len(Qualifying) |->
                               [receiver |-> Qualifying[i],
                                result |-> ResultOf(Qualifying[i])]]
    ELSE \E f \in Exiting(Qualifying) :
           /\ \A g \in Exiting(Qualifying) : f <= g
           /\ busLast.out = "raised"
           /\ busLast.err = ErrorOf(Qualifying[f])
           /\ busLast.invoked = SubSeq(Qualifying, 1, f)

\* a send_robust whose second receiver of three raises an Exception
C15_Witness ==
  /\ busLast.op = "send_robust"
  /\ busLast.out = "returned"
  /\ Len(busLast.pairs) = 3
  /\ busLast.pairs[2].result.k = "error"
  /\ busLast.pairs[3].result.k = "response"

\* C17: a disconnect returns true exactly when a live entry has its key;
\* that entry is then the one removed and the others stay in their order;
\* when none has it the list stays as it is (in both cases the dead entries
\* that were pending are swept by the same call).
C17_DisconnectRemovesTheEntry ==
  busLast.op = "disconnect" =>
    IF Places(LiveBefore, LastKey) = {}
    THEN ~busLast.ret /\ bus.receivers = LiveBefore
    ELSE /\ busLast.ret
         /\ \E i \in Places(LiveBefore, LastKey) :
              bus.receivers = [j \in 1..(Len(LiveBefore) - 1) |->
                                 IF j < i THEN LiveBefore[j] ELSE LiveBefore[j + 1]]

\* a disconnect that removes the second entry of three
C17_Witness ==
  /\ busLast.op = "disconnect"
  /\ busLast.ret
  /\ Len(busLast.pre.receivers) = 3
  /\ LiveBefore = busLast.pre.receivers
  /\ Places(LiveBefore, LastKey) = {2}
  /\ Len(bus.receivers) = 2

\* The entries of list that the signal holds itself
RECURSIVE StrongEntries(_)
StrongEntries(list) ==
  IF list = <<>> THEN <<>>
  ELSE (IF Head(list).weak THEN <<>> ELSE <<Head(list)>>) \o StrongEntries(Tail(list))

\* C18: no send and no send_robust calls a receiver that was released
\* before it started, and has_listeners tells whether a live entry qualifies,
\* whatever was disconnected; an entry connected with weak=False has its
\* receiver alive and stays in the list through every call but its own
\* disconnect.
C18_ReleasedNeverCalled ==
  /\ busLast.op \in {"send", "send_robust"} =>
       \A i \in 1..Len(busLast.invoked) : busLast.invoked[i] \in busLast.live
  /\ busLast.op = "has_listeners" => busLast.ret = (Qualifying # <<>>)
  /\ \A i \in 1..Len(bus.receivers) :
       ~bus.receivers[i].weak => bus.receivers[i].receiver \in alive
  /\ busLast.op \notin {"", "disconnect", "connect"} =>
       StrongEntries(bus.receivers) = StrongEntries(busLast.pre.receivers)

\* a send that calls a receiver while the entry of a released receiver, which
\* was connected weakly for the same sender, is still in the list
C18_Witness ==
  /\ busLast.op \in {"send", "send_robust"}
  /\ busLast.invoked # <<>>
  /\ \E i \in 1..Len(busLast.pre.receivers) :
       /\ busLast.pre.receivers[i].weak
       /\ busLast.pre.receivers[i].receiver \notin busLast.live
       /\ busLast.pre.receivers[i].key[2] \in {NONE_ID, make_id(busLast.sender)}

\* C19: a send or send_robust returns the empty list, calls no receiver and
\* leaves the receiver list and the cache as they are when nothing is
\* connected, when the cache holds NO_RECEIVERS for the sender, and in the
\* test mode.
C19_FastExits ==
  (/\ busLast.op \in {"send", "send_robust"}
   /\ \/ busLast.pre.receivers = <<>>
      \/ CacheGet(busLast.pre.cache, busLast.sender) = NO_RECEIVERS
      \/ TestMode) =>
    /\ busLast.out = "returned"
    /\ busLast.pairs = <<>>
    /\ busLast.invoked = <<>>
    /\ bus.receivers = busLast.pre.receivers
    /\ bus.cache = busLast.pre.cache

\* a send in the test mode with a live receiver connected for every sender
C19_Witness ==
  /\ busLast.op \in {"send", "send_robust"}
  /\ TestMode
  /\ Qualifying # <<>>
  /\ busLast.pairs = <<>>

\* A receiver is called in this step, by the thread t
Calls(t) ==
  /\ threads[t].pc = "invoke"
  /\ threads[t].recs # <<>>
  /\ threads'[t].recs # threads[t].recs

\* C16: every step that writes the receiver list or the cache is a step of
\* the thread that holds the lock of the signal, inside its locked block;
\* every step that calls a receiver is a step of a thread that does not hold
\* the lock; the lock is held only by a thread inside a locked block; and as
\* long as a thread is inside a call, some thread inside a call can take its
\* next step, so that no interleaving deadlocks and the calls that receivers
\* make on the signal return.
C16_LockDiscipline ==
  /\ [][/\ (bus'.receivers # bus.receivers \/ bus'.cache # bus.cache)
             => \E t \in Threads : /\ lock = t
                                   /\ threads[t].pc \in {"sweep", "locked", "clear"}
                                   /\ threads'[t].pc \in {"clear", "release"}
        /\ \A t \in Threads : Calls(t) => lock # t]_vars
  /\ [](/\ lock # "free" => threads[lock].pc \in {"sweep", "locked", "clear", "release"}
        /\ \A t \in Threads : threads[t].pc \in {"sweep", "locked", "clear", "release"} => lock = t
        /\ (\E t \in Threads : threads[t].pc # "idle")
             => \E t \in Threads : threads[t].pc # "idle" /\ ENABLED CStep(t))

\* both threads have made all their calls and returned from them, a call
\* that a receiver made on the signal during a send has returned, and the
\* signal still has an entry
C16_Witness ==
  /\ \A t \in Threads : threads[t].pc = "idle" /\ threads[t].calls = MaxCalls
  /\ \E t \in Threads : threads[t].back
  /\ bus.receivers # <<>>

\* What the cache of the signal gives for sender agrees with the list: the
\* receivers it resolves to are those of the entries for sender in the list
CacheAgrees(sender) ==
  LET cached == CacheGet(bus.cache, sender)
      fresh == NonWeak(ForSender(bus.receivers, make_id(sender)), alive)
  IN /\ cached.kind = "NO_RECEIVERS" => fresh = <<>>
     /\ cached.kind = "list" => NonWeak(cached.list, alive) = fresh

\* C23: on a caching signal, whenever the lock is free, every entry of the
\* cache resolves to the live receivers that the list gives for its sender,
\* since connect and disconnect clear the cache before they release the
\* lock; and a send that resolves its receivers while no connect or
\* disconnect is under way takes, from the cache or from the list, the
\* entries the list has for its sender, whatever the other thread has sent.
C23_CacheFollowsTheList ==
  /\ [](lock = "free" => \A sender \in Senders : CacheAgrees(sender))
  /\ [][\A t \in Threads :
          (/\ threads[t].pc \in {"lookup", "locked"}
           /\ threads[t].call.op = "send" /\ threads[t].inner.op = ""
           /\ threads'[t].pc \in {"deref", "release", "idle"}
           /\ \A o \in Threads : threads[o].pc \notin {"clear", "release"}
                                    \/ Current(threads[o]).op = "send")
            => NonWeak(threads'[t].found, alive)
                 = NonWeak(ForSender(bus.receivers, make_id(threads[t].call.sender)), alive)]_vars

\* on a caching signal a thread takes the entries of its send from the cache
\* that the send of the other thread filled after the last connect, and the
\* list has entries for the sender
C23_Witness ==
  /\ bus.use_caching
  /\ lock = "free"
  /\ CacheGet(bus.cache, "s1").kind = "list"
  /\ \E t \in Threads :
       /\ threads[t].pc = "deref"
       /\ threads[t].call.op = "send"
       /\ threads[t].calls = 1
       /\ threads[t].found = CacheGet(bus.cache, "s1").list
       /\ \E o \in Threads \ {t} : threads[o].calls = MaxCalls /\ threads[o].pc = "idle"

\* every receiver in list returns when it is called
AllReturn(list) == \A i \in 1..Len(list) : Behaviour[list[i]] = "returns"

\* C29: the receivers a send calls are those of the list _live_receivers gave
\* it, in that order, whatever is connected or disconnected afterwards, by a
\* receiver it calls or by the other thread: the receivers it has called are
\* the first of that list, as long as they all return those it has yet to
\* call are the rest of it, and a send that ends with all of them returned
\* has called every one of them, those included whose entry a disconnect
\* has removed, and none that was connected since.
C29_ReceiversFixedAtResolution ==
  /\ [](\A t \in Threads :
          (threads[t].call.op = "send" /\ threads[t].pc \notin {"idle", "lookup", "deref"}
           /\ (threads[t].inner.op # "" \/ threads[t].pc = "invoke")) =>
            /\ Len(threads[t].invoked) <= Len(threads[t].fixed)
            /\ threads[t].invoked = SubSeq(threads[t].fixed, 1, Len(threads[t].invoked))
            /\ AllReturn(threads[t].invoked)
                 => threads[t].invoked \o threads[t].recs = threads[t].fixed)
  /\ [][\A t \in Threads :
          (threads[t].pc = "invoke" /\ threads'[t].pc = "idle"
           /\ AllReturn(threads[t].invoked))
            => threads[t].invoked = threads[t].fixed]_vars

\* a send for s1 got r1 and r3; r1, called first, disconnected r3, and the
\* disconnect returned true; r3 was called all the same, and connected r2
\* for every sender, which this send did not call
C29_Witness ==
  \E t \in Threads :
    /\ threads[t].call.op = "send" /\ threads[t].pc = "idle"
    /\ threads[t].fixed = <<"r1", "r3">>
    /\ threads[t].invoked = <<"r1", "r3">>
    /\ threads[t].ret
    /\ "r3" \in threads[t].gone
    /\ ~HasEntry(bus, "r3")
    /\ \E i \in 1..Len(bus.receivers) :
         bus.receivers[i].receiver = "r2" /\ bus.receivers[i].key[2] = NONE_ID

(***************************************************************************)
(* Properties of the pruning (SpecPrune)                                   *)
(***************************************************************************)
\* a thread has reset the flag and has not filtered the list yet
MidSweep == \E t \in Threads : threads[t].pc = "locked" /\ threads[t].sweeps

\* The entries a call leaves in the list once its block under the lock has
\* run: none that was dead, its finalizer run, when the call began, and for a
\* connect with the key of such an entry, an entry under the key
PrunedByNextCall ==
  \A t \in Threads :
    (threads[t].pc = "locked" /\ threads'[t].pc \in {"clear", "release"}) =>
      LET c == Current(threads[t])
          key == LookupKey(c.receiver, c.sender, c.dispatch_uid)
      IN /\ \A i \in 1..Len(bus'.receivers) :
              bus'.receivers[i] \notin threads[t].stale
         /\ (c.op = "connect" /\ \E e \in threads[t].stale : e.key = key)
              => \E i \in 1..Len(bus'.receivers) :
                   bus'.receivers[i].key = key

\* C26 as stated: whenever the list holds an entry whose weak reference is
\* dead and whose finalizer has run, the flag is set, whatever the order of
\* the finalizers and of the steps of the sweeps; and the next connect,
\* disconnect or resolution from the list removes the entry, so that a
\* connect with its key is not dropped.
C26_FlagSetWheneverDead ==
  /\ []((\E i \in 1..Len(bus.receivers) : Finalized(bus, bus.receivers[i], alive))
          => bus.dead)
  /\ [][PrunedByNextCall]_vars

\* C26 amended: outside the two steps of a sweep, whenever the list holds an entry
\* whose weak reference is dead and whose finalizer has run, the flag is set,
\* whatever the order of the finalizers and of the steps of the sweeps; and a
\* connect, a disconnect or a resolution from the list that began with such
\* an entry in the list leaves the list without that entry, and when the call
\* is a connect with the key of that entry, with another entry under the key.
C26_DeadEntriesArePruned ==
  /\ [](~MidSweep =>
          ((\E i \in 1..Len(bus.receivers) : Finalized(bus, bus.receivers[i], alive))
             => bus.dead))
  /\ [][PrunedByNextCall]_vars

\* r2 was connected under the dispatch_uid and is gone, its finalizer has
\* run, a sweep has reset the flag and the finalizer of r1 has set it again,
\* and the connect of r4 under the same dispatch_uid, begun with the dead
\* entry in the list, has put r4 in the list
C26_Witness ==
  /\ "r2" \notin alive /\ "r2" \notin bus.finalizers
  /\ "r1" \notin alive /\ "r1" \notin bus.finalizers
  /\ bus.dead
  /\ \E t \in Threads :
       /\ threads[t].pc = "clear"
       /\ threads[t].call.receiver = "r4"
       /\ threads[t].stale = {Entry(<<"uid", make_id("s1")>>, "r2", TRUE)}
       /\ bus.receivers = <<Entry(<<"uid", make_id("s1")>>, "r4", TRUE)>>

(***************************************************************************)
(* Properties of configure called from two threads (SpecRace)              *)
(***************************************************************************)
\* C28: configure tests the wrapper and installs its container in two steps
\* with no lock: a thread is refused as already configured only when it
\* finds a container at its test, a thread that found none installs its own
\* container whatever another thread has installed since, and every thread
\* that installed goes on to send the notification of the commit.  So both
\* threads may pass the test, install and send.
C28_TestThenInstall ==
  /\ [][\A t \in Threads :
          /\ (threads[t].pc = "check" /\ threads'[t].pc # "check")
               => IF wrapped.isNone THEN threads'[t].pc = "install"
                  ELSE threads'[t].pc = "raised" /\ threads'[t].err = AlreadyConfigured
          /\ (threads[t].pc = "install" /\ threads'[t].pc # "install")
               => wrapped' = Settings(update(EmptyDict, threads[t].input))
          /\ (threads[t].pc = "send" /\ threads'[t].pc # "send")
               => Len(threads'[t].notes) = 1]_vars
  /\ [](\A t \in Threads :
          threads[t].err = AlreadyConfigured => threads[t].notes = <<>>)

\* both threads have passed the test on the unconfigured wrapper, installed
\* a container and sent the notification, neither was refused, and the
\* container is the one of the thread that installed last
C28_Witness ==
  /\ \A t \in Threads :
       /\ threads[t].pc = "done"
       /\ threads[t].err = NoError
       /\ Len(threads[t].notes) = 1
       /\ threads[t].notes[1].signal = "post_settings_configured"
       /\ threads[t].notes[1].invoked = 1
  /\ threads["t1"].input = EmptyDict /\ ~threads["t1"].lazy
  /\ threads["t2"].input = "compute" :> Dict("arch" :> Str("virtualenv"))
  /\ ~wrapped.isNone
  /\ wrapped.d["compute"].d["arch"] = Str("terra.compute.dummy")

====
